---- MODULE Spec2Model ----
(***************************************************************************)
(* Model of the realtime call bridging subsystem of nethesis/satellite:    *)
(* the ARI call orchestrator (asterisk_bridge.py) driving the RTP server   *)
(* (rtp_server.py).  Every coroutine is a thread whose position (pc) is    *)
(* the await it is suspended in; one action is the code that runs between  *)
(* two awaits, which asyncio executes atomically.                          *)
(***************************************************************************)
EXTENDS Integers, Sequences, FiniteSets, TLC

\* ------------------------------------------------------------ bounds
MaxApi == 2        \* start_transcription / stop_transcription calls in flight at once
MaxApiCalls == 2   \* start_transcription / stop_transcription calls made
MaxHangups == 1    \* channelHangup events the PBX sends
MaxLeft == 1       \* ChannelLeftBridge events the PBX sends
MaxDup == 1        \* StasisStart events repeated for a registered channel
MaxDrops == 2      \* unexpected WebSocket closes
MaxCalls == 2      \* normal channels that enter Stasis
MaxRequestFails == 1   \* awaited requests that fail while the session is open
MaxFails == 7      \* reconnect attempts that fail while the session is open

\* ------------------------------------------------------------ universe
CallIds == {"c1", "c2"}
Dirs == {"in", "out"}
LinkedL == "L"
NoId == "none"
Ids == CallIds \cup {LinkedL}
MaxTasks == 2      \* _start_connector tasks alive at once
TaskIds == 1..MaxTasks
ApiIds == 1..MaxApi

\* UNICASTRTP_LOCAL_PORT of the external-media channel of call c, direction d
Port(c, d) ==
  CASE c = "c1" /\ d = "in" -> 1
    [] c = "c1" /\ d = "out" -> 2
    [] c = "c2" /\ d = "in" -> 3
    [] c = "c2" /\ d = "out" -> 4
Ports == {Port(c, d) : c \in CallIds, d \in Dirs}
NoAddr == 0

Range(s) == {s[i] : i \in 1..Len(s)}
Min(a, b) == IF a < b THEN a ELSE b

VARIABLES
  channels,        \* the Call dicts, by channel id (a dict outlives its registry entry)
  reg,             \* keys of self.channels, in insertion order
  closed,          \* channel ids for which a close_channel call has returned
  pending,         \* self.pending_transcription_requests
  streams,         \* keys of rtp_server.streams, in insertion order
  remote,          \* remote_addr of the stream created for a port (NoAddr = None)
  loop,            \* the _process_ari_events task
  tasks,           \* background _start_connector tasks
  api,             \* start_transcription / stop_transcription callers
  main,            \* main(): waits for the shutdown signal, then disconnects
  is_shutting_down,
  ws_open,         \* self.ws is an open WebSocket
  session_closed,  \* self.session has been closed
  delay,           \* local variable delay of _reconnect
  fails,           \* failed attempts of the running _reconnect
  pbx,             \* PBX side of a channel: "none", "queued" (created, StasisStart
                   \* not yet delivered), "started" (in Stasis) or "gone" (hung up)
  bridged,         \* auxiliary channels the PBX holds in a mixing bridge
  sending,         \* source ports the PBX sends RTP from
  continued,       \* channels for which an ARI continue succeeded
  failed_setup,    \* Calls for which an ARI request of the StasisStart handling failed
  cc_raised,       \* an exception has left close_channel
  budget,          \* environment events still allowed
  buffer,          \* RTPStreamReader._buffer of the stream registered for a port
  active,          \* RTPStream.active of the stream registered for a port
  swap16,          \* RTPServer.swap16
  dg,              \* the DeepgramConnector object
  closers,         \* coroutines running DeepgramConnector.close()
  handler,         \* the on_message coroutine of the provider's listener
  published,       \* what the connector handed to mqtt_client.publish, in order
  mqtt,            \* the MQTTClient object
  broker,          \* the MQTT broker, as the client sees it
  conn,            \* coroutines running MQTTClient._connect_with_retry
  pubs,            \* coroutines running MQTTClient.publish
  rows,            \* table transcripts, by uniqueid
  chunks,          \* table transcript_chunks: contents by transcript id, in index order
  reqs,            \* coroutines running get_transcription
  env,             \* the environment variables the batch API reads
  gate,            \* a request at _require_api_token_if_configured
  ret,             \* the last call of replace_transcript_embeddings that returned
  schema           \* _schema_lock, _schema_initialized and the threads in _ensure_schema

\* The connector and the bus client, which the orchestrator's own steps leave alone
\* The batch API and its database
apiVars == <<rows, chunks, reqs, env, gate, ret, schema>>

sideVars == <<swap16, dg, closers, handler, published, mqtt, broker, conn, pubs, apiVars>>

\* The orchestrator and its RTP server
bridgeVars == <<channels, reg, closed, pending, streams, remote, buffer, active, loop,
                tasks, api, main, is_shutting_down, ws_open, session_closed, delay,
                fails, pbx, bridged, sending, continued, failed_setup, cc_raised>>

vars == <<bridgeVars, budget, sideVars>>

\* ------------------------------------------------------------ Call dict
NoDirs == [d \in Dirs |-> FALSE]

\* self.channels[channel_id] = {} : every key absent
EmptyChannel ==
  [linkedid |-> NoId, requested |-> FALSE, started |-> FALSE, elapsed |-> FALSE,
   connector |-> FALSE, swapped |-> FALSE, snoop |-> NoDirs, ext |-> NoDirs,
   port |-> NoDirs, bridge |-> NoDirs, stream |-> NoDirs]

\* The program state that synchronous code reads and writes, as one value.
G0 == [ch |-> channels, reg |-> reg, closed |-> closed, pend |-> pending,
       streams |-> streams, remote |-> remote, buffer |-> buffer, active |-> active,
       tasks |-> tasks, sending |-> sending]

SetG(G) ==
  /\ channels' = G.ch
  /\ reg' = G.reg
  /\ closed' = G.closed
  /\ pending' = G.pend
  /\ streams' = G.streams
  /\ remote' = G.remote
  /\ buffer' = G.buffer
  /\ active' = G.active
  /\ tasks' = G.tasks
  /\ sending' = G.sending

InReg(G, c) == c \in Range(G.reg)

Without(s, x) == SelectSeq(s, LAMBDA y : y # x)

\* _find_channels_for_callid
FindChannelsForCallid(G, id) ==
  IF id \in Range(G.reg) THEN <<id>>
  ELSE SelectSeq(G.reg, LAMBDA c : G.ch[c].linkedid = id)

\* ------------------------------------------------------------ RTP server
\* RTPServer.create_stream: returns the existing stream of the port, else
\* registers a new one with remote_addr None, an empty reader and active True.
CreateStream(G, p) ==
  IF p \in Range(G.streams) THEN G
  ELSE [G EXCEPT !.streams = Append(@, p), !.remote[p] = NoAddr,
                 !.buffer[p] = <<>>, !.active[p] = TRUE]

\* RTPServer.end_stream: no-op on an unknown port.
EndStream(G, p) ==
  IF p \notin Range(G.streams) THEN G
  ELSE [G EXCEPT !.streams = Without(@, p), !.buffer[p] = <<>>, !.active[p] = FALSE]

\* RTPStreamReader._max_buffer_size, scaled down from 32000 bytes
MaxBufferSize == 4

\* RTPStreamReader.feed_data: `del self._buffer[:excess]` removes at most the
\* whole buffer, then the chunk is appended whole.
FeedData(buf, data) ==
  IF Len(buf) + Len(data) > MaxBufferSize
  THEN LET excess == Len(buf) + Len(data) - MaxBufferSize
       IN SubSeq(buf, excess + 1, Len(buf)) \o data
  ELSE buf \o data

\* RTPStreamReader.read(bytes_count): what is left in the buffer
ReadRest(buf, n) == SubSeq(buf, n + 1, Len(buf))

\* Lines 196-201: every pair of bytes swapped when the length is even
Swap16(a) ==
  IF Len(a) % 2 # 0 THEN a
  ELSE [i \in 1..Len(a) |-> IF i % 2 = 1 THEN a[i + 1] ELSE a[i - 1]]

\* Mutation of TargetIndex: an unbound stream is taken before the dict is
\* searched for the stream bound to addr.
TargetIndexUnboundFirst(ss, rem, addr) ==
  LET free == {i \in 1..Len(ss) : rem[ss[i]] = NoAddr}
      bound == {i \in 1..Len(ss) : rem[ss[i]] = addr}
  IN IF free # {} THEN CHOOSE i \in free : \A j \in free : i <= j
     ELSE IF bound # {} THEN CHOOSE i \in bound : \A j \in bound : i <= j
     ELSE 0

\* The stream datagram_received picks for a datagram from addr: the first
\* stream in dict order that is bound to addr or is unbound.  0 = no target.
TargetIndex(ss, rem, addr) ==
  LET hits == {i \in 1..Len(ss) : rem[ss[i]] = addr \/ rem[ss[i]] = NoAddr}
  IN IF hits = {} THEN 0 ELSE CHOOSE i \in hits : \A j \in hits : i <= j

\* ------------------------------------------------------------ close_channel
\* The awaits of close_channel, in order: 0 connector.close(), 1..4 the ARI
\* DELETE of bridge_in, bridge_out, external_media_channel_in, _out.
StageDir(s) == IF s \in {1, 3} THEN "in" ELSE "out"
StageHas(G, c, s) ==
  IF s <= 2 THEN G.ch[c].bridge[StageDir(s)] ELSE G.ch[c].ext[StageDir(s)]
StageDel(G, c, s) ==
  IF s <= 2 THEN [G EXCEPT !.ch[c].bridge[StageDir(s)] = FALSE]
  ELSE [G EXCEPT !.ch[c].ext[StageDir(s)] = FALSE]

\* Mutation of CloseFinalStreams: the keys are deleted, end_stream is not called.
CloseFinalStreamsKeep(G, c, d) ==
  [G EXCEPT !.ch[c].port[d] = FALSE, !.ch[c].stream[d] = FALSE]

\* The third loop of close_channel, `del self.channels[channel_id]` and the
\* discard of the pending request: no await, so one atomic block.
CloseFinalStreams(G, c, d) ==
  LET G1 == IF G.ch[c].port[d] THEN EndStream(G, Port(c, d)) ELSE G
  IN [G1 EXCEPT !.ch[c].port[d] = FALSE, !.ch[c].stream[d] = FALSE]

CloseFinal(G, c) ==
  LET G1 == CloseFinalStreams(CloseFinalStreams(G, c, "in"), c, "out")
  IN IF InReg(G1, c)
     THEN [G |-> [G1 EXCEPT !.reg = Without(@, c), !.pend = @ \ {c},
                            !.closed = @ \cup {c}],
           res |-> "done", stage |-> 0]
     ELSE [G |-> G1, res |-> "raised", stage |-> 0]   \* KeyError

\* From stage s on: suspend in the first DELETE whose key the dict holds,
\* else finish.
RECURSIVE CloseScan(_, _, _)
CloseScan(G, c, s) ==
  IF s > 4 THEN CloseFinal(G, c)
  ELSE IF StageHas(G, c, s) THEN [G |-> G, res |-> "wait", stage |-> s]
  ELSE CloseScan(G, c, s + 1)

\* close_channel(c) from its first line to its first await.
CloseEnter(G, c) ==
  IF ~InReg(G, c)
  THEN [G |-> [G EXCEPT !.pend = @ \ {c}, !.closed = @ \cup {c}],
        res |-> "done", stage |-> 0]
  ELSE IF G.ch[c].connector
       THEN [G |-> [G EXCEPT !.ch[c].connector = FALSE], res |-> "wait", stage |-> 0]
  ELSE CloseScan(G, c, 1)

\* close_channel(c) resumed from the await of stage s (a failure of the awaited
\* request is caught and logged, so both outcomes go on alike).  `del
\* channel[key]` raises KeyError when another close_channel deleted the key
\* meanwhile.
CloseResume(G, c, s) ==
  IF s = 0 THEN CloseScan(G, c, 1)
  ELSE IF ~StageHas(G, c, s) THEN [G |-> G, res |-> "raised", stage |-> s]
  ELSE CloseScan(StageDel(G, c, s), c, s + 1)

\* ------------------------------------------------------------ threads
Thread(pc, c, d, s) == [pc |-> pc, call |-> c, dir |-> d, stage |-> s]
LoopIdle == Thread("idle", NoId, NoId, 0)
LoopAt(pc, c, d) == Thread(pc, c, d, 0)
TaskFree == Thread("free", NoId, NoId, 0)

Aux(k, d, c) == [kind |-> k, dir |-> d, call |-> c]
AuxChans == {Aux(k, d, c) : k \in {"snoop", "ext"}, d \in Dirs, c \in CallIds}
Normal(c) == Aux("normal", NoId, c)
AllChans == {Normal(c) : c \in CallIds} \cup AuxChans

\* The `finally` of _process_ari_events followed by the first lines of
\* _reconnect, up to its asyncio.sleep(delay).
Finally ==
  IF is_shutting_down
  THEN [loop |-> LoopAt("ended", NoId, NoId), delay |-> delay, fails |-> fails]
  ELSE [loop |-> LoopAt("reconnect_sleep", NoId, NoId), delay |-> 1, fails |-> 0]

SetLoop(r) == loop' = r.loop /\ delay' = r.delay /\ fails' = r.fails
Goto(t) == loop' = t /\ UNCHANGED <<delay, fails>>

\* asyncio.create_task(self._start_connector(c)) takes a free task slot
FreeTasks(G) == {t \in TaskIds : G.tasks[t].pc = "free"}
CanSpawn(G) == FreeTasks(G) # {}
Spawn(G, c) ==
  LET t == CHOOSE t \in FreeTasks(G) : \A u \in FreeTasks(G) : t <= u
  IN [G EXCEPT !.tasks[t] = Thread("spawned", c, NoId, 0)]

\* ------------------------------------------------------------ StasisStart
\* Mutation of RegisterCall: only the channel id is looked up in the queue.
RegisterCallChannelOnly(G, c, lk) ==
  LET linkedid == IF lk = NoId THEN c ELSE lk
  IN [G EXCEPT !.ch[c].linkedid = linkedid,
               !.ch[c].requested = (c \in G.pend),
               !.ch[c].started = FALSE,
               !.pend = @ \ {c}]

\* Lines 239-248: resolve linkedid, take the queued request, discard it.
RegisterCall(G, c, lk) ==
  LET linkedid == IF lk = NoId THEN c ELSE lk
  IN [G EXCEPT !.ch[c].linkedid = linkedid,
               !.ch[c].requested = (c \in G.pend \/ linkedid \in G.pend),
               !.ch[c].started = FALSE,
               !.pend = @ \ {c}]

\* The outcome of an awaited request: it fails once the session is closed, and
\* can fail at any time before (a bounded number of times).
ProviderTry(ok) ==
  /\ ~ok => budget.fail > 0
  /\ budget' = IF ~ok THEN [budget EXCEPT !.fail = @ - 1] ELSE budget

Try(ok) ==
  /\ ok => ~session_closed
  /\ (~ok /\ ~session_closed) => budget.fail > 0
  /\ budget' = IF ~ok /\ ~session_closed THEN [budget EXCEPT !.fail = @ - 1] ELSE budget

\* StasisStart of a channel already in self.channels: only `continue`.
StasisStartDup(c) ==
  /\ loop.pc = "idle" /\ ws_open
  /\ c \in Range(reg) /\ pbx[Normal(c)] = "started"
  /\ budget.dup > 0
  /\ budget' = [budget EXCEPT !.dup = @ - 1]
  /\ Goto(LoopAt("dup_continue", c, NoId))
  /\ UNCHANGED <<channels, reg, closed, pending, streams, remote, buffer, active, tasks, api, main,
                 is_shutting_down, sideVars, ws_open, session_closed, pbx, bridged, sending,
                 continued, failed_setup, cc_raised>>

DupContinueReturn ==
  /\ loop.pc = "dup_continue"
  /\ \E ok \in BOOLEAN :
       /\ Try(ok)
       /\ IF ok
          THEN /\ continued' = continued \cup {loop.call}
               /\ Goto(LoopIdle)
          ELSE /\ SetLoop(Finally)
               /\ UNCHANGED continued
  /\ UNCHANGED <<channels, reg, closed, pending, streams, remote, buffer, active, tasks, api, main,
                 is_shutting_down, sideVars, ws_open, session_closed, pbx, bridged, sending,
                 failed_setup, cc_raised>>

\* StasisStart of a normal channel: lines 230-252, up to the linkedid
\* variable request (event without linkedid) or the first snoop request.
StasisStartNormal(c, lk) ==
  /\ loop.pc = "idle" /\ ws_open
  /\ c \notin Range(reg) /\ pbx[Normal(c)] = "none"
  /\ budget.calls > 0
  /\ budget' = [budget EXCEPT !.calls = @ - 1]
  /\ pbx' = [pbx EXCEPT ![Normal(c)] = "started"]
  /\ LET G1 == [G0 EXCEPT !.ch[c] = EmptyChannel, !.reg = Append(@, c)]
     IN IF lk = NoId
        THEN SetG(G1) /\ Goto(LoopAt("linkedid", c, NoId))
        ELSE SetG(RegisterCall(G1, c, lk)) /\ Goto(LoopAt("snoop", c, "in"))
  /\ UNCHANGED <<api, main, is_shutting_down, sideVars, ws_open, session_closed, bridged,
                 continued, failed_setup, cc_raised>>

\* _get_channel_variable(channel_id, "CHANNEL(linkedid)") returned lk or None
LinkedidReturn(lk) ==
  /\ loop.pc = "linkedid"
  /\ \E ok \in BOOLEAN :
       /\ Try(ok)
       /\ IF ok /\ InReg(G0, loop.call)
          THEN /\ SetG(RegisterCall(G0, loop.call, lk))
               /\ Goto(LoopAt("snoop", loop.call, "in"))
               /\ UNCHANGED failed_setup
          ELSE /\ SetLoop(Finally)
               /\ failed_setup' = IF ok THEN failed_setup
                                  ELSE failed_setup \cup {loop.call}
               /\ UNCHANGED <<channels, reg, closed, pending, streams, remote, buffer, active, tasks, sending>>
  /\ UNCHANGED <<api, main, is_shutting_down, sideVars, ws_open, session_closed, pbx, bridged,
                 continued, cc_raised>>

\* POST /channels/{id}/snoop returned, for direction loop.dir
SnoopReturn ==
  /\ loop.pc = "snoop"
  /\ LET c == loop.call
         d == loop.dir
     IN \E ok \in BOOLEAN :
       /\ Try(ok)
       /\ pbx' = IF ok THEN [pbx EXCEPT ![Aux("snoop", d, c)] = "queued"] ELSE pbx
       /\ IF ok /\ InReg(G0, c)
          THEN /\ channels' = [channels EXCEPT ![c].snoop[d] = TRUE]
               /\ Goto(IF d = "in" THEN LoopAt("snoop", c, "out")
                       ELSE LoopAt("cidnum", c, NoId))
               /\ UNCHANGED failed_setup
          ELSE /\ SetLoop(Finally)
               /\ failed_setup' = IF ok THEN failed_setup ELSE failed_setup \cup {c}
               /\ UNCHANGED channels
  /\ UNCHANGED <<reg, closed, pending, streams, remote, buffer, active, tasks, api, main, is_shutting_down, sideVars,
                 ws_open, session_closed, bridged, sending, continued, cc_raised>>

\* The two variable reads of lines 267-274 sit in a try: a failure of the
\* first skips the second, and the handler returns either way.
ConnectedInfoReturn ==
  /\ loop.pc \in {"cidnum", "cidname"}
  /\ \E ok \in BOOLEAN, value \in BOOLEAN :
       /\ Try(ok)
       \* a truthy value is stored in self.channels[channel_id]: KeyError, caught
       /\ Goto(IF ok /\ loop.pc = "cidnum" /\ (value => InReg(G0, loop.call))
               THEN LoopAt("cidname", loop.call, NoId)
               ELSE LoopIdle)
  /\ UNCHANGED <<channels, reg, closed, pending, streams, remote, buffer, active, tasks, api, main,
                 is_shutting_down, sideVars, ws_open, session_closed, pbx, bridged, sending,
                 continued, failed_setup, cc_raised>>

\* Mutation of AuxOwner: the scan compares the kind and direction of the
\* auxiliary channel but not the call it belongs to.
AuxOwnerAnyCall(G, a) ==
  LET hits == SelectSeq(G.reg, LAMBDA c : IF a.kind = "snoop" THEN G.ch[c].snoop[a.dir]
                                          ELSE G.ch[c].ext[a.dir])
  IN IF hits = <<>> THEN NoId ELSE Head(hits)

\* The owner the handlers find by scanning self.channels for the auxiliary
\* channel id (original_channel_id); NoId when the scan assigns nothing.
AuxOwner(G, a) ==
  IF InReg(G, a.call) /\ (IF a.kind = "snoop" THEN G.ch[a.call].snoop[a.dir]
                          ELSE G.ch[a.call].ext[a.dir])
  THEN a.call ELSE NoId

\* StasisStart of a snoop channel: lines 277-295, up to the externalMedia
\* request.  Without an owner original_channel_id is unbound: the handler raises.
StasisStartSnoop(a) ==
  /\ loop.pc = "idle" /\ ws_open
  /\ a.kind = "snoop" /\ pbx[a] = "queued"
  /\ pbx' = [pbx EXCEPT ![a] = "started"]
  /\ IF AuxOwner(G0, a) = NoId
     THEN SetLoop(Finally)
     ELSE Goto(LoopAt("extmedia", a.call, a.dir))
  /\ UNCHANGED <<channels, reg, closed, pending, streams, remote, buffer, active, tasks, api, main,
                 is_shutting_down, sideVars, ws_open, session_closed, bridged, sending, continued, failed_setup, cc_raised, budget>>

\* POST /channels/externalMedia returned: lines 297-298
ExtMediaReturn ==
  /\ loop.pc = "extmedia"
  /\ LET c == loop.call
         d == loop.dir
     IN \E ok \in BOOLEAN :
       /\ Try(ok)
       /\ pbx' = IF ok THEN [pbx EXCEPT ![Aux("ext", d, c)] = "queued"] ELSE pbx
       /\ IF ok /\ InReg(G0, c)
          THEN /\ channels' = [channels EXCEPT ![c].ext[d] = TRUE, ![c].port[d] = TRUE]
               /\ Goto(LoopIdle)
               /\ UNCHANGED failed_setup
          ELSE /\ SetLoop(Finally)
               /\ failed_setup' = IF ok THEN failed_setup ELSE failed_setup \cup {c}
               /\ UNCHANGED channels
  /\ UNCHANGED <<reg, closed, pending, streams, remote, buffer, active, tasks, api, main, is_shutting_down, sideVars,
                 ws_open, session_closed, bridged, sending, continued, cc_raised>>

\* StasisStart of an external-media channel: lines 300-318, up to POST /bridges
StasisStartExt(a) ==
  /\ loop.pc = "idle" /\ ws_open
  /\ a.kind = "ext" /\ pbx[a] = "queued"
  /\ pbx' = [pbx EXCEPT ![a] = "started"]
  /\ IF AuxOwner(G0, a) = NoId
     THEN SetLoop(Finally)
     ELSE Goto(LoopAt("bridge", a.call, a.dir))
  /\ UNCHANGED <<channels, reg, closed, pending, streams, remote, buffer, active, tasks, api, main,
                 is_shutting_down, sideVars, ws_open, session_closed, bridged, sending, continued, failed_setup, cc_raised, budget>>

\* POST /bridges returned: lines 319-327
BridgeReturn ==
  /\ loop.pc = "bridge"
  /\ LET c == loop.call
         d == loop.dir
     IN \E ok \in BOOLEAN :
       /\ Try(ok)
       /\ IF ok /\ InReg(G0, c)
          THEN /\ channels' = [channels EXCEPT ![c].bridge[d] = TRUE]
               /\ Goto(LoopAt("add_snoop", c, d))
               /\ UNCHANGED failed_setup
          ELSE /\ SetLoop(Finally)
               /\ failed_setup' = IF ok THEN failed_setup ELSE failed_setup \cup {c}
               /\ UNCHANGED channels
  /\ UNCHANGED <<reg, closed, pending, streams, remote, buffer, active, tasks, api, main, is_shutting_down, sideVars,
                 ws_open, session_closed, pbx, bridged, sending, continued,
                 cc_raised>>

\* What a thread does with the result R of a close_channel segment: stay in
\* close_channel at the await R.stage, go on at `after`, or raise.
LoopClose(R, c, ccpc, after) ==
  /\ SetG(R.G)
  /\ IF R.res = "wait" THEN Goto(Thread(ccpc, c, NoId, R.stage)) /\ UNCHANGED cc_raised
     ELSE IF R.res = "done" THEN Goto(after) /\ UNCHANGED cc_raised
     ELSE SetLoop(Finally) /\ cc_raised' = TRUE

\* Mutation of BothBridges: one bridge is enough.
BothBridgesEither(G, c) == G.ch[c].bridge["in"] \/ G.ch[c].bridge["out"]

\* Lines 336-343: both bridges exist, so create the two streams and sleep.
BothBridges(G, c) == G.ch[c].bridge["in"] /\ G.ch[c].bridge["out"]

AudioReadyEnter(G, c) ==
  CreateStream(CreateStream(G, Port(c, "in")), Port(c, "out"))

\* addChannel returned (snoop, then external media): lines 328-343
AddChannelReturn ==
  /\ loop.pc \in {"add_snoop", "add_ext"}
  /\ LET c == loop.call
         d == loop.dir
     IN \E ok \in BOOLEAN :
       /\ Try(ok)
       /\ bridged' = IF ok THEN bridged \cup {Aux(IF loop.pc = "add_snoop" THEN "snoop"
                                                  ELSE "ext", d, c)}
                     ELSE bridged
       /\ IF ~ok
          THEN /\ SetLoop(Finally)
               /\ failed_setup' = failed_setup \cup {c}
               /\ UNCHANGED <<channels, reg, closed, pending, streams, remote, buffer, active, tasks,
                              sending, cc_raised>>
          ELSE /\ UNCHANGED failed_setup
               /\ IF loop.pc = "add_snoop"
                  THEN /\ Goto(LoopAt("add_ext", c, d))
                       /\ UNCHANGED <<channels, reg, closed, pending, streams, remote, buffer, active,
                                      tasks, sending, cc_raised>>
                  ELSE LET G1 == [G0 EXCEPT !.sending = @ \cup {Port(c, d)}]
                       IN IF ~InReg(G1, c)
                          THEN SetG(G1) /\ SetLoop(Finally) /\ UNCHANGED cc_raised
                          ELSE IF ~BothBridges(G1, c)
                          THEN SetG(G1) /\ Goto(LoopIdle) /\ UNCHANGED cc_raised
                          ELSE IF G1.ch[c].port["in"] /\ G1.ch[c].port["out"]
                          THEN /\ SetG(AudioReadyEnter(G1, c))
                               /\ Goto(LoopAt("sleep", c, d))
                               /\ UNCHANGED cc_raised
                          ELSE LoopClose(CloseEnter(G1, c), c, "cc_cont",
                                         LoopAt("continue", c, NoId))
  /\ UNCHANGED <<api, main, is_shutting_down, sideVars, ws_open, session_closed, pbx,
                 continued>>

\* Lines 353-357: swap the speaker identities when stream_in is bound to the
\* source port of the out direction.
PortsSwapped(G, c) ==
  /\ G.remote[Port(c, "in")] # NoAddr
  /\ G.remote[Port(c, "in")] = Port(c, "out")

\* Lines 345-368, after the sleep.
AudioReady(G, c) ==
  LET G1 == [G EXCEPT !.ch[c].swapped = PortsSwapped(G, c),
                      !.ch[c].stream = [d \in Dirs |-> TRUE]]
  IN IF G1.ch[c].requested THEN Spawn(G1, c) ELSE G1

\* asyncio.sleep(0.1) returned: lines 345-377, up to the continue request
SleepReturn ==
  /\ loop.pc = "sleep"
  /\ LET c == loop.call
     IN IF ~InReg(G0, c)
        THEN LoopClose(CloseEnter(G0, c), c, "cc_cont", LoopAt("continue", c, NoId))
        ELSE /\ channels[c].requested => CanSpawn(G0)
             /\ SetG(AudioReady(G0, c))
             /\ Goto(LoopAt("continue", c, NoId))
             /\ UNCHANGED cc_raised
  /\ UNCHANGED <<api, main, is_shutting_down, sideVars, ws_open, session_closed, pbx, bridged,
                 continued, failed_setup, budget>>

\* POST /channels/{id}/continue returned: lines 373-378
ContinueReturn ==
  /\ loop.pc = "continue"
  /\ \E ok \in BOOLEAN :
       /\ Try(ok)
       /\ IF ok
          THEN /\ continued' = continued \cup {loop.call}
               /\ Goto(LoopIdle)
               /\ UNCHANGED failed_setup
          ELSE /\ SetLoop(Finally)
               /\ failed_setup' = failed_setup \cup {loop.call}
               /\ UNCHANGED continued
  /\ UNCHANGED <<channels, reg, closed, pending, streams, remote, buffer, active, tasks, api, main,
                 is_shutting_down, sideVars, ws_open, session_closed, pbx, bridged, sending,
                 cc_raised>>

\* The loop task resumed inside close_channel
LoopCloseStep ==
  /\ loop.pc \in {"cc_idle", "cc_cont"}
  /\ LoopClose(CloseResume(G0, loop.call, loop.stage), loop.call, loop.pc,
               IF loop.pc = "cc_idle" THEN LoopIdle
               ELSE LoopAt("continue", loop.call, NoId))
  /\ UNCHANGED <<api, main, is_shutting_down, sideVars, ws_open, session_closed, pbx, bridged,
                 continued, failed_setup, budget>>

\* ------------------------------------------------------------ hangup, left bridge
\* _handle_channel_hangup: the channel itself when it is a key of
\* self.channels, else the owner of the snoop / external-media channel.
HangupOwner(G, x) ==
  IF x.kind = "normal" THEN (IF InReg(G, x.call) THEN x.call ELSE NoId)
  ELSE AuxOwner(G, x)

ChannelHangup(x) ==
  /\ loop.pc = "idle" /\ ws_open
  /\ x \in AllChans /\ pbx[x] \in {"queued", "started"}
  /\ pbx' = [pbx EXCEPT ![x] = "gone"]
  /\ budget.hangups > 0
  /\ budget' = [budget EXCEPT !.hangups = @ - 1]
  /\ LET c == HangupOwner(G0, x)
     IN IF c = NoId
        THEN /\ Goto(LoopIdle)
             /\ UNCHANGED <<channels, reg, closed, pending, streams, remote, buffer, active, tasks,
                            sending, cc_raised>>
        ELSE LoopClose(CloseEnter(G0, c), c, "cc_idle", LoopIdle)
  /\ UNCHANGED <<api, main, is_shutting_down, sideVars, ws_open, session_closed, bridged,
                 continued, failed_setup>>

\* _handle_channel_left_bridge
ChannelLeftBridge(a) ==
  /\ loop.pc = "idle" /\ ws_open
  /\ a \in bridged
  /\ bridged' = bridged \ {a}
  /\ budget.left > 0
  /\ budget' = [budget EXCEPT !.left = @ - 1]
  /\ LET c == AuxOwner(G0, a)
     IN IF c = NoId
        THEN /\ Goto(LoopIdle)
             /\ UNCHANGED <<channels, reg, closed, pending, streams, remote, buffer, active, tasks,
                            sending, cc_raised>>
        ELSE LoopClose(CloseEnter(G0, c), c, "cc_idle", LoopIdle)
  /\ UNCHANGED <<api, main, is_shutting_down, sideVars, ws_open, session_closed, pbx,
                 continued, failed_setup>>

\* _handle_stasis_end: the channel is looked up in self.channels, the event is
\* logged, and the handler returns
StasisEnd(x) ==
  /\ loop.pc = "idle" /\ ws_open
  /\ x \in AllChans /\ pbx[x] = "started"
  /\ budget.ends > 0
  /\ budget' = [budget EXCEPT !.ends = @ - 1]
  /\ Goto(LoopIdle)
  /\ UNCHANGED <<channels, reg, closed, pending, streams, remote, buffer, active, tasks,
                 sending, cc_raised, api, main, is_shutting_down, sideVars, ws_open,
                 session_closed, pbx, bridged, continued, failed_setup>>

\* ------------------------------------------------------------ WebSocket, reconnect
MaxReconnectDelay == 30

\* The PBX side drops the WebSocket.
WsDrop ==
  /\ ws_open
  /\ budget.drops > 0
  /\ budget' = [budget EXCEPT !.drops = @ - 1]
  /\ ws_open' = FALSE
  /\ UNCHANGED <<channels, reg, closed, pending, streams, remote, buffer, active, loop, tasks, api, main,
                 is_shutting_down, sideVars, session_closed, delay, fails, pbx, bridged, sending,
                 continued, failed_setup, cc_raised>>

\* `async for msg in self.ws` ends (CLOSED / ERROR): the finally block runs.
LoopWsClosed ==
  /\ loop.pc = "idle" /\ ~ws_open
  /\ SetLoop(Finally)
  /\ UNCHANGED <<channels, reg, closed, pending, streams, remote, buffer, active, tasks, api, main,
                 is_shutting_down, sideVars, ws_open, session_closed, pbx, bridged, sending,
                 continued, failed_setup, cc_raised, budget>>

\* asyncio.sleep(delay) of _reconnect returned: _connect_websocket starts.  The
\* stage of the thread records whether is_shutting_down was set by then (the
\* code does not read the flag here).
ReconnectWake ==
  /\ loop.pc = "reconnect_sleep"
  /\ Goto(Thread("reconnect_connect", NoId, NoId, IF is_shutting_down THEN 1 ELSE 0))
  /\ UNCHANGED <<channels, reg, closed, pending, streams, remote, buffer, active, tasks, api, main,
                 is_shutting_down, sideVars, ws_open, session_closed, pbx, bridged, sending,
                 continued, failed_setup, cc_raised, budget>>

\* Mutation of NextDelay: the doubling without the cap.
NextDelayNoCap(d) == d * 2

\* Line 190
NextDelay(d) == Min(d * 2, MaxReconnectDelay)

\* session.ws_connect returned or raised: lines 184-190 and the loop test
ReconnectReturn ==
  /\ loop.pc = "reconnect_connect"
  /\ \E ok \in BOOLEAN :
       /\ ok => ~session_closed
       /\ (~ok /\ ~session_closed) => budget.refuse > 0
       /\ budget' = IF ~ok /\ ~session_closed THEN [budget EXCEPT !.refuse = @ - 1]
                    ELSE budget
       /\ IF ok
          THEN /\ ws_open' = TRUE
               /\ Goto(LoopIdle)
          ELSE /\ delay' = NextDelay(delay)
               /\ fails' = fails + 1
               /\ loop' = IF is_shutting_down THEN LoopAt("ended", NoId, NoId)
                          ELSE LoopAt("reconnect_sleep", NoId, NoId)
               /\ UNCHANGED ws_open
  /\ UNCHANGED <<channels, reg, closed, pending, streams, remote, buffer, active, tasks, api, main,
                 is_shutting_down, sideVars, session_closed, pbx, bridged, sending, continued,
                 failed_setup, cc_raised>>

\* ------------------------------------------------------------ shutdown
MainAt(pc, todo, s) == [pc |-> pc, todo |-> todo, stage |-> s]

\* The for loop of disconnect(): close_channel of each key of the snapshot,
\* up to the first await.
RECURSIVE Sweep(_, _)
Sweep(G, todo) ==
  IF todo = <<>> THEN [G |-> G, res |-> "done", stage |-> 0, todo |-> <<>>]
  ELSE LET R == CloseEnter(G, Head(todo))
       IN IF R.res = "done" THEN Sweep(R.G, Tail(todo))
          ELSE [G |-> R.G, res |-> R.res, stage |-> R.stage, todo |-> todo]

\* Lines 154-157 once the sweep is over: close the WebSocket when it is open,
\* then the session.
AfterSweep(R) ==
  /\ SetG(R.G)
  /\ IF R.res = "wait"
     THEN /\ main' = MainAt("sweep", R.todo, R.stage)
          /\ UNCHANGED <<ws_open, session_closed, cc_raised>>
     ELSE IF R.res = "raised"
     THEN /\ main' = MainAt("crashed", <<>>, 0)
          /\ cc_raised' = TRUE
          /\ UNCHANGED <<ws_open, session_closed>>
     ELSE IF ws_open
     THEN /\ main' = MainAt("ws_close", <<>>, 0)
          /\ ws_open' = FALSE
          /\ UNCHANGED <<session_closed, cc_raised>>
     ELSE /\ main' = MainAt("session_close", <<>>, 0)
          /\ session_closed' = TRUE
          /\ UNCHANGED <<ws_open, cc_raised>>

\* The shutdown signal: main() calls disconnect()
Disconnect ==
  /\ main.pc = "run"
  /\ is_shutting_down' = TRUE
  /\ AfterSweep(Sweep(G0, reg))
  /\ UNCHANGED <<loop, api, delay, fails, pbx, bridged, continued, failed_setup,
                 budget, sideVars>>

\* disconnect() resumed inside close_channel
MainCloseStep ==
  /\ main.pc = "sweep"
  /\ LET R == CloseResume(G0, Head(main.todo), main.stage)
     IN IF R.res = "done" THEN AfterSweep(Sweep(R.G, Tail(main.todo)))
        ELSE AfterSweep([G |-> R.G, res |-> R.res, stage |-> R.stage,
                         todo |-> main.todo])
  /\ UNCHANGED <<loop, api, is_shutting_down, sideVars, delay, fails, pbx, bridged, continued, failed_setup, budget>>

\* self.ws.close() returned: self.session.close()
MainWsClosed ==
  /\ main.pc = "ws_close"
  /\ main' = MainAt("session_close", <<>>, 0)
  /\ session_closed' = TRUE
  /\ UNCHANGED <<channels, reg, closed, pending, streams, remote, buffer, active, loop, tasks, api,
                 is_shutting_down, sideVars, ws_open, delay, fails, pbx, bridged, sending, continued, failed_setup, cc_raised, budget>>

\* RTPServer.stop: lines 90-95, end_stream for every port
RtpStop(G) ==
  [G EXCEPT !.streams = <<>>,
            !.buffer = [p \in Ports |-> IF p \in Range(G.streams) THEN <<>> ELSE @[p]],
            !.active = [p \in Ports |-> IF p \in Range(G.streams) THEN FALSE ELSE @[p]]]

\* session.close() returned; rtp_server.stop() has no await; then the bus disconnect
MainSessionClosed ==
  /\ main.pc = "session_close"
  /\ main' = MainAt("mqtt_disconnect", <<>>, 0)
  /\ SetG(RtpStop(G0))
  /\ UNCHANGED <<loop, api, is_shutting_down, sideVars, ws_open, session_closed, delay, fails,
                 pbx, bridged, continued, failed_setup, cc_raised, budget>>

MainMqttDisconnected ==
  /\ main.pc = "mqtt_disconnect"
  /\ main' = MainAt("done", <<>>, 0)
  /\ UNCHANGED <<channels, reg, closed, pending, streams, remote, buffer, active, loop, tasks, api,
                 is_shutting_down, sideVars, ws_open, session_closed, delay, fails, pbx, bridged,
                 sending, continued, failed_setup, cc_raised, budget>>

\* ------------------------------------------------------------ start / stop transcription
ApiAt(pc, id, todo, matched) == [pc |-> pc, id |-> id, todo |-> todo, matched |-> matched]
ApiIdle == ApiAt("free", NoId, <<>>, {})
\* A caller slot is free again once its call has returned or raised.
Returned == {"free", "st_queued", "st_returned", "st_raised", "sp_returned"}
FirstFree(a) ==
  /\ api[a].pc \in Returned
  /\ \A b \in ApiIds : b < a => api[b].pc \notin Returned
ApiReturned(pc, id) == ApiAt(pc, id, <<>>, {})

\* start_transcription(id): lines 411-419, up to the first answered-time request
StartTranscription(a, id) ==
  /\ FirstFree(a)
  /\ budget.api > 0
  /\ budget' = [budget EXCEPT !.api = @ - 1]
  /\ LET G1 == [G0 EXCEPT !.pend = @ \cup {id}]
         ids == FindChannelsForCallid(G1, id)
     IN IF ids = <<>>
        THEN /\ SetG(G1)
             /\ api' = [api EXCEPT ![a] = ApiReturned("st_queued", NoId)]
        ELSE /\ SetG([G1 EXCEPT !.ch[Head(ids)].requested = TRUE])
             /\ api' = [api EXCEPT ![a] = ApiAt("st_elapsed", id, ids, Range(ids))]
  /\ UNCHANGED <<loop, main, is_shutting_down, sideVars, ws_open, session_closed, delay, fails,
                 pbx, bridged, continued, failed_setup, cc_raised>>

\* Lines 420-425 for the channel whose answered time was awaited.
StartRequested(G, c, known) ==
  LET G1 == [G EXCEPT !.ch[c].elapsed = known]
  IN IF ~G1.ch[c].started THEN Spawn(G1, c) ELSE G1

\* _get_answered_elapsed_seconds returned (its one or two variable reads are
\* one suspension here): lines 420-425, then the next channel of the list.
StartElapsedReturn(a) ==
  /\ api[a].pc = "st_elapsed"
  /\ LET h == Head(api[a].todo)
         rest == Tail(api[a].todo)
     IN \E ok \in BOOLEAN, known \in BOOLEAN :
       /\ Try(ok)
       /\ IF ~ok \/ ~InReg(G0, h)
          THEN /\ api' = [api EXCEPT ![a] = ApiReturned("st_raised", NoId)]
               /\ UNCHANGED <<channels, reg, closed, pending, streams, remote, buffer, active, tasks, sending>>
          ELSE /\ ~channels[h].started => CanSpawn(G0)
               /\ LET G1 == StartRequested(G0, h, known)
                  IN IF rest = <<>>
                     THEN /\ SetG(G1)
                          /\ api' = [api EXCEPT ![a] = ApiReturned("st_returned", NoId)]
                     ELSE IF ~InReg(G1, Head(rest))
                     THEN /\ SetG(G1)
                          /\ api' = [api EXCEPT ![a] = ApiReturned("st_raised", NoId)]
                     ELSE /\ SetG([G1 EXCEPT !.ch[Head(rest)].requested = TRUE])
                          /\ api' = [api EXCEPT ![a].todo = rest]
  /\ UNCHANGED <<loop, main, is_shutting_down, sideVars, ws_open, session_closed, delay, fails,
                 pbx, bridged, continued, failed_setup, cc_raised>>

\* The for loop of stop_transcription, up to the await of connector.close()
RECURSIVE StopLoop(_, _)
StopLoop(G, todo) ==
  IF todo = <<>> THEN [G |-> G, res |-> "done", todo |-> <<>>]
  ELSE LET h == Head(todo)
       IN IF ~InReg(G, h) THEN StopLoop(G, Tail(todo))
          ELSE LET G1 == [G EXCEPT !.ch[h].requested = FALSE]
               IN IF G1.ch[h].connector
                  THEN [G |-> [G1 EXCEPT !.ch[h].connector = FALSE],
                        res |-> "wait", todo |-> todo]
                  ELSE StopLoop(G1, Tail(todo))

AfterStop(a, id, matched, R) ==
  /\ SetG(R.G)
  /\ api' = [api EXCEPT ![a] = IF R.res = "wait"
                               THEN ApiAt("sp_close", id, R.todo, matched)
                               ELSE ApiReturned("sp_returned", id)]

\* stop_transcription(id): lines 429-443
StopTranscription(a, id) ==
  /\ FirstFree(a)
  /\ budget.api > 0
  /\ budget' = [budget EXCEPT !.api = @ - 1]
  /\ LET G1 == [G0 EXCEPT !.pend = @ \ {id}]
         ids == FindChannelsForCallid(G1, id)
     IN AfterStop(a, id, Range(ids), StopLoop(G1, ids))
  /\ UNCHANGED <<loop, main, is_shutting_down, sideVars, ws_open, session_closed, delay, fails,
                 pbx, bridged, continued, failed_setup, cc_raised>>

\* connector.close() returned or raised (caught): line 446, then the next channel
StopCloseReturn(a) ==
  /\ api[a].pc = "sp_close"
  /\ LET h == Head(api[a].todo)
         G1 == [G0 EXCEPT !.ch[h].started = FALSE]
     IN AfterStop(a, api[a].id, api[a].matched, StopLoop(G1, Tail(api[a].todo)))
  /\ UNCHANGED <<loop, main, is_shutting_down, sideVars, ws_open, session_closed, delay, fails,
                 pbx, bridged, continued, failed_setup, cc_raised, budget>>

\* ------------------------------------------------------------ _start_connector
\* What the task does with the result R of a close_channel segment.
TaskClose(R, t, c) ==
  /\ SetG([R.G EXCEPT !.tasks[t] = IF R.res = "wait" THEN Thread("cc", c, NoId, R.stage)
                                   ELSE TaskFree])
  /\ cc_raised' = (cc_raised \/ R.res = "raised")

\* The except block, lines 403-407
TaskFailed(G, t, c) ==
  IF InReg(G, c) THEN TaskClose(CloseEnter(G, c), t, c)
  ELSE SetG([G EXCEPT !.tasks[t] = TaskFree]) /\ UNCHANGED cc_raised

\* Lines 397-400: build the connector when the dict has none, call start()
StartConnector(G, t, c) ==
  IF ~G.ch[c].connector /\ ~InReg(G, c)
  THEN TaskFailed(G, t, c)            \* _build_connector: KeyError
  ELSE /\ SetG([G EXCEPT !.ch[c].connector = TRUE,
                        !.tasks[t] = Thread("starting", c, NoId, 0)])
       /\ UNCHANGED cc_raised

\* Lines 383-392: the three early returns
StartGuards(G, c) ==
  /\ InReg(G, c)
  /\ ~G.ch[c].started
  /\ G.ch[c].stream["in"] /\ G.ch[c].stream["out"]

\* The task runs from its first line to its first await.
TaskRun(t) ==
  /\ tasks[t].pc = "spawned"
  /\ LET c == tasks[t].call
     IN IF ~StartGuards(G0, c)
        THEN SetG([G0 EXCEPT !.tasks[t] = TaskFree]) /\ UNCHANGED cc_raised
        ELSE IF ~channels[c].elapsed
        THEN /\ SetG([G0 EXCEPT !.tasks[t] = Thread("elapsed", c, NoId, 0)])
             /\ UNCHANGED cc_raised
        ELSE StartConnector(G0, t, c)
  /\ UNCHANGED <<loop, api, main, is_shutting_down, sideVars, ws_open, session_closed, delay,
                 fails, pbx, bridged, continued, failed_setup, budget>>

\* _get_answered_elapsed_seconds returned or raised: lines 395-400
TaskElapsedReturn(t) ==
  /\ tasks[t].pc = "elapsed"
  /\ LET c == tasks[t].call
     IN \E ok \in BOOLEAN, known \in BOOLEAN :
       /\ Try(ok)
       /\ IF ok THEN StartConnector([G0 EXCEPT !.ch[c].elapsed = known], t, c)
          ELSE TaskFailed(G0, t, c)
  /\ UNCHANGED <<loop, api, main, is_shutting_down, sideVars, ws_open, session_closed, delay,
                 fails, pbx, bridged, continued, failed_setup>>

\* connector.start() returned or raised: lines 401-407
TaskStartReturn(t) ==
  /\ tasks[t].pc = "starting"
  /\ LET c == tasks[t].call
     IN \E ok \in BOOLEAN :
          /\ ProviderTry(ok)
          /\ IF ok THEN /\ SetG([G0 EXCEPT !.ch[c].started = TRUE, !.tasks[t] = TaskFree])
                        /\ UNCHANGED cc_raised
             ELSE TaskFailed(G0, t, c)
  /\ UNCHANGED <<loop, api, main, is_shutting_down, sideVars, ws_open, session_closed, delay,
                 fails, pbx, bridged, continued, failed_setup>>

\* the task resumed inside close_channel
TaskCloseStep(t) ==
  /\ tasks[t].pc = "cc"
  /\ TaskClose(CloseResume(G0, tasks[t].call, tasks[t].stage), t, tasks[t].call)
  /\ UNCHANGED <<loop, api, main, is_shutting_down, sideVars, ws_open, session_closed, delay,
                 fails, pbx, bridged, continued, failed_setup, budget>>

\* ------------------------------------------------------------ RTP datagrams
\* RTPServer.rtp_header_size (main.py: RTP_HEADER_SIZE, default 12)
RtpHeaderSize == 12

\* A datagram of n bytes: its length and its bytes beyond the RTP header,
\* numbered 1, 2, ... in the order they are sent
Payload(n) == [i \in 1..n |-> i]
Dgram(n) == [len |-> n, payload |-> Payload(IF n > RtpHeaderSize THEN n - RtpHeaderSize ELSE 0)]
KeepAlive == Dgram(RtpHeaderSize)
Dgrams == {Dgram(n) : n \in (RtpHeaderSize - 1)..(RtpHeaderSize + MaxBufferSize + 1)}

\* Line 185: the datagram carries audio beyond the header
Accepted(d) == d.len > RtpHeaderSize

\* Mutation of Deliver: the active flag of the target is not tested.
DeliverToInactive(i, addr, d) ==
  LET t == streams[i]
      audio == IF swap16 THEN Swap16(d.payload) ELSE d.payload
  IN /\ remote' = [remote EXCEPT ![t] = addr]
     /\ buffer' = IF Accepted(d)
                  THEN [buffer EXCEPT ![t] = FeedData(@, audio)]
                  ELSE buffer

\* Lines 162-206 on the stream at index i of the dict
Deliver(i, addr, d) ==
  LET t == streams[i]
      audio == IF swap16 THEN Swap16(d.payload) ELSE d.payload
  IN /\ remote' = [remote EXCEPT ![t] = addr]
     /\ buffer' = IF active[t] /\ Accepted(d)
                  THEN [buffer EXCEPT ![t] = FeedData(@, audio)]
                  ELSE buffer

\* RTPProtocol.datagram_received(data, addr): the target is the first stream in
\* dict order that is bound to addr or is unbound (and then bound to addr).
DatagramReceived(addr, d) ==
  /\ main.pc \notin {"mqtt_disconnect", "done"}
  /\ Accepted(d) => budget.dgrams > 0
  /\ budget' = IF Accepted(d) THEN [budget EXCEPT !.dgrams = @ - 1] ELSE budget
  /\ LET i == TargetIndex(streams, remote, addr)
     IN IF i = 0 THEN UNCHANGED <<remote, buffer>> ELSE Deliver(i, addr, d)
  /\ UNCHANGED <<channels, reg, closed, pending, streams, active, loop, tasks, api, main,
                 is_shutting_down, ws_open, session_closed, delay, fails, pbx, bridged,
                 sending, continued, failed_setup, cc_raised, sideVars>>

\* The audio pump polls the reader of the stream of port p: read(n)
ReaderRead(p, n) ==
  /\ p \in Range(streams)
  /\ budget.reads > 0
  /\ budget' = [budget EXCEPT !.reads = @ - 1]
  /\ buffer' = [buffer EXCEPT ![p] = ReadRest(@, n)]
  /\ UNCHANGED <<channels, reg, closed, pending, streams, remote, active, loop, tasks,
                 api, main, is_shutting_down, ws_open, session_closed, delay, fails,
                 pbx, bridged, sending, continued, failed_setup, cc_raised, sideVars>>

\* A direct create_stream(p) / end_stream(p) call on the server
StreamCreated(p) ==
  /\ SetG(CreateStream(G0, p))
  /\ UNCHANGED <<loop, api, main, is_shutting_down, ws_open, session_closed, delay,
                 fails, pbx, bridged, continued, failed_setup, cc_raised, budget,
                 sideVars>>

StreamEnded(p) ==
  /\ SetG(EndStream(G0, p))
  /\ UNCHANGED <<loop, api, main, is_shutting_down, ws_open, session_closed, delay,
                 fails, pbx, bridged, continued, failed_setup, cc_raised, budget,
                 sideVars>>

\* A holder of the stream object clears its active flag, as
\* test_datagram_received_inactive_stream does.
StreamDeactivated(p) ==
  /\ p \in Range(streams) /\ active[p]
  /\ active' = [active EXCEPT ![p] = FALSE]
  /\ UNCHANGED <<channels, reg, closed, pending, streams, remote, buffer, loop, tasks,
                 api, main, is_shutting_down, ws_open, session_closed, delay, fails,
                 pbx, bridged, sending, continued, failed_setup, cc_raised, budget,
                 sideVars>>

\* ------------------------------------------------------------ DeepgramConnector
MaxClosers == 2    \* close() coroutines alive at once
CloserIds == 1..MaxClosers

\* A key the payload dict does not hold
Absent == 0 - 1

\* The kwargs _build_connector passes: the two parties and call_elapsed_at_start
SpeakerIn == [name |-> "Alice", number |-> "100"]
SpeakerOut == [name |-> "Bob", number |-> "200"]
Uniqueid == LinkedL

\* DeepgramConnector.__init__: no provider connection, no tasks, nothing
\* recorded; the keyword call_elapsed_at_start (kw) is not read.
NewConnector(kw) ==
  [kw |-> kw,
   conn |-> "none",          \* dg_connection: "none" (None) or "client"
   sock |-> "none",          \* dg_connection._socket: "none", "open", "closed"
   start |-> "idle",         \* start(): "idle", "handshake", "returned"
   connected |-> FALSE,
   pump |-> "none",          \* read_audio_from_rtp_task: "none", "running", "cancelled",
                             \* "failed", "done"
   at |-> "top",             \* where read_audio_from_rtp stands: "top", "sleep", "put"
   idle |-> 0,               \* polls in a row that found no audio, since its last await
   shipper |-> "none",       \* send_audio_to_deepgram_task
   complete_call |-> <<>>,
   finalized |-> 0]          \* calls of dg_connection.finalize()

CloserFree == [pc |-> "free", src |-> NoId, cancel |-> FALSE]
HandlerIdle == [pc |-> "idle", ev |-> NoId]

\* Transcript events of the provider: first alternative's transcript,
\* is_final, channel_index[0] and start (here the length of the transcript)
StartOf(text) == IF text = "hello" THEN 5 ELSE IF text = "hi" THEN 2 ELSE 0
Events ==
  {[text |-> t, is_final |-> f, index |-> i, start |-> StartOf(t)] :
     t \in {"", "hi", "hello"}, f \in BOOLEAN, i \in 0..2}

\* Mutation of Speaker: the 'in' party for every index but 1.
SpeakerByOne(ev) ==
  IF ev.index # 1 THEN [who |-> SpeakerIn, other |-> SpeakerOut]
  ELSE [who |-> SpeakerOut, other |-> SpeakerIn]

\* Lines 96-105
Speaker(ev) ==
  IF ev.index = 0 THEN [who |-> SpeakerIn, other |-> SpeakerOut]
  ELSE [who |-> SpeakerOut, other |-> SpeakerIn]

\* The payload of lines 109-118 (and, with the same keys, of 122-131)
Transcription(ev) ==
  [topic |-> "transcription", uniqueid |-> Uniqueid, transcription |-> ev.text,
   timestamp |-> ev.start,
   speaker_name |-> Speaker(ev).who.name, speaker_number |-> Speaker(ev).who.number,
   speaker_counterpart_name |-> Speaker(ev).other.name,
   speaker_counterpart_number |-> Speaker(ev).other.number,
   is_final |-> ev.is_final, call_elapsed_seconds |-> Absent]

\* Lines 239-245: the text, as the sequence of the strings concatenated
RECURSIVE RawTranscription(_, _)
RawTranscription(calls, last) ==
  IF calls = <<>> THEN <<>>
  ELSE LET m == Head(calls)
       IN (IF last # m.speaker_name THEN <<"\n", m.speaker_name, ": ">> ELSE <<>>)
            \o <<m.transcription, "\n">>
            \o RawTranscription(Tail(calls), m.speaker_name)

Final(calls) ==
  [topic |-> "final", uniqueid |-> Uniqueid,
   raw_transcription |-> RawTranscription(calls, NoId)]

\* start(): lines 55-76, up to the await of the provider handshake
DgStart ==
  /\ dg.start = "idle"
  /\ dg' = [dg EXCEPT !.conn = "client", !.start = "handshake"]
  /\ UNCHANGED <<bridgeVars, apiVars, budget, swap16, closers, handler, published, mqtt, broker,
                 conn, pubs>>

\* dg_connection.start(options) returned True or False, or raised: lines 76-82
DgStartReturn ==
  /\ dg.start = "handshake"
  /\ \E r \in {"true", "false", "raised"} :
       dg' = IF r = "true"
             THEN [dg EXCEPT !.start = "returned", !.sock = "open", !.connected = TRUE,
                             !.pump = "running", !.shipper = "running"]
             ELSE [dg EXCEPT !.start = "returned"]
  /\ UNCHANGED <<bridgeVars, apiVars, budget, swap16, closers, handler, published, mqtt, broker,
                 conn, pubs>>

\* ------------------------------------------------------------ audio pump
\* read_audio_from_rtp with the sizes scaled down: read(ReadChunk) for
\* read(320), TargetSize for 5120.  The collection loop of lines 172-182 has no
\* await; it ends when a buffer is full or when the clock has passed the
\* timeout, which is after a number of polls that the speed of the machine
\* decides.
ReadChunk == 1
TargetSize == 2
MaxPolls == 3      \* polls the clock allows before the timeout of line 174
PumpPorts == [d \in Dirs |-> Port("c1", d)]

\* RTPStreamReader.read(n)
ReadData(buf, n) == SubSeq(buf, 1, Min(n, Len(buf)))

\* One poll of a stream (lines 175-178): nothing is read once the target is met
PollOne(buf, got) ==
  IF got < TargetSize
  THEN [buf |-> ReadRest(buf, ReadChunk), got |-> got + Len(ReadData(buf, ReadChunk)),
        n |-> Len(ReadData(buf, ReadChunk))]
  ELSE [buf |-> buf, got |-> got, n |-> 0]

\* The collection loop from its k-th last poll on.  P holds the two buffers,
\* the bytes collected from each, the polls in a row that found no audio (run)
\* and the longest such row (idle).
RECURSIVE CollectLoop(_, _)
CollectLoop(P, k) ==
  IF k = 0 \/ P.got["in"] >= TargetSize \/ P.got["out"] >= TargetSize THEN P
  ELSE LET i == PollOne(P.buf["in"], P.got["in"])
           o == PollOne(P.buf["out"], P.got["out"])
           run == IF i.n = 0 /\ o.n = 0 THEN P.run + 1 ELSE 0
       IN CollectLoop([buf |-> [in |-> i.buf, out |-> o.buf],
                       got |-> [in |-> i.got, out |-> o.got],
                       run |-> run,
                       idle |-> IF run > P.idle THEN run ELSE P.idle], k - 1)

\* The pump runs from the top of its outer loop to its next await: lines
\* 167-186 or 167-202.  k = polls before the timeout.
PumpCollect(k) ==
  /\ dg.pump = "running" /\ dg.at = "top"
  /\ IF ~dg.connected
     THEN dg' = [dg EXCEPT !.pump = "done"] /\ UNCHANGED buffer
     ELSE LET P == CollectLoop([buf |-> [d \in Dirs |-> buffer[PumpPorts[d]]],
                                got |-> [d \in Dirs |-> 0], run |-> 0, idle |-> 0], k)
          IN /\ buffer' = [p \in Ports |->
                             IF p = PumpPorts["in"] THEN P.buf["in"]
                             ELSE IF p = PumpPorts["out"] THEN P.buf["out"]
                             ELSE buffer[p]]
             /\ dg' = [dg EXCEPT !.idle = P.idle,
                                 !.at = IF P.got["in"] = 0 /\ P.got["out"] = 0
                                        THEN "sleep" ELSE "put"]
  /\ UNCHANGED <<channels, reg, closed, pending, streams, remote, active, loop, tasks,
                 api, main, is_shutting_down, ws_open, session_closed, delay, fails,
                 pbx, bridged, sending, continued, failed_setup, cc_raised, budget,
                 apiVars, swap16, closers, handler, published, mqtt, broker, conn, pubs>>

\* asyncio.sleep(0.1) or audio_queue.put returned: lines 185-186, 202
PumpResumed ==
  /\ dg.pump = "running" /\ dg.at \in {"sleep", "put"}
  /\ dg' = [dg EXCEPT !.at = "top", !.idle = 0]
  /\ UNCHANGED <<bridgeVars, apiVars, budget, swap16, closers, handler, published, mqtt,
                 broker, conn, pubs>>

\* on_message(result): lines 89-119, up to the await of the publish
OnMessage(ev) ==
  /\ dg.sock = "open" /\ handler.pc = "idle"
  /\ budget.events > 0
  /\ budget' = [budget EXCEPT !.events = @ - 1]
  /\ IF ev.text = ""
     THEN UNCHANGED <<handler, published>>
     ELSE /\ published' = Append(published, Transcription(ev))
          /\ handler' = [pc |-> "publish", ev |-> ev]
  /\ UNCHANGED <<bridgeVars, apiVars, swap16, dg, closers, mqtt, broker, conn, pubs>>

\* mqtt_client.publish returned: lines 120-131
OnMessagePublished ==
  /\ handler.pc = "publish"
  /\ handler' = HandlerIdle
  /\ dg' = IF handler.ev.is_final
           THEN [dg EXCEPT !.complete_call = Append(@, Transcription(handler.ev))]
           ELSE dg
  /\ UNCHANGED <<bridgeVars, apiVars, budget, swap16, closers, published, mqtt, broker, conn, pubs>>

\* close() from its first line to its first await (line 234): finalize() is
\* called on dg_connection, which is None until start() has run.
FreeClosers == {k \in CloserIds : closers[k].pc = "free"}
CloseEnterDg(src) ==
  /\ FreeClosers # {}
  /\ LET k == CHOOSE k \in FreeClosers : \A j \in FreeClosers : k <= j
     IN IF dg.conn = "none"
        THEN /\ dg' = [dg EXCEPT !.connected = FALSE]
             /\ UNCHANGED closers           \* AttributeError leaves close()
        ELSE /\ dg' = [dg EXCEPT !.connected = FALSE, !.finalized = @ + 1]
             /\ closers' = [closers EXCEPT ![k] = [pc |-> "finalize", src |-> src,
                                                   cancel |-> FALSE]]

\* The orchestrator calls close(): close_channel or stop_transcription
CloseCalled ==
  /\ budget.closes > 0
  /\ budget' = [budget EXCEPT !.closes = @ - 1]
  /\ CloseEnterDg("caller")
  /\ UNCHANGED <<bridgeVars, apiVars, swap16, handler, published, mqtt, broker, conn, pubs>>

\* on_error: the provider reports an error, close() is scheduled as a task
OnError ==
  /\ dg.sock = "open"
  /\ budget.errors > 0
  /\ budget' = [budget EXCEPT !.errors = @ - 1]
  /\ CloseEnterDg("error")
  /\ UNCHANGED <<bridgeVars, apiVars, swap16, handler, published, mqtt, broker, conn, pubs>>

\* The except block of read_audio_from_rtp / send_audio_to_deepgram: the task
\* clears connected and awaits close() itself
TaskFailedDg(which) ==
  /\ dg[which] = "running"
  /\ budget.taskfails > 0
  /\ budget' = [budget EXCEPT !.taskfails = @ - 1]
  /\ FreeClosers # {}
  /\ LET k == CHOOSE k \in FreeClosers : \A j \in FreeClosers : k <= j
     IN /\ dg' = [dg EXCEPT !.connected = FALSE, !.finalized = @ + 1,
                            ![which] = "failed"]
        /\ closers' = [closers EXCEPT ![k] = [pc |-> "finalize", src |-> which,
                                              cancel |-> FALSE]]
  /\ UNCHANGED <<bridgeVars, apiVars, swap16, handler, published, mqtt, broker, conn, pubs>>

\* Lines 236-237: cancel() on the two tasks.  A task that is itself inside
\* close() gets the CancelledError at its next await.
CancelTasks(cs) ==
  [k \in CloserIds |->
     IF cs[k].pc # "free" /\ cs[k].src \in {"pump", "shipper"}
     THEN [cs[k] EXCEPT !.cancel = TRUE] ELSE cs[k]]

\* close() resumed from one of its awaits: finalize() (234), _socket.close()
\* (235), publish (248)
CloserStep(k) ==
  /\ closers[k].pc \in {"finalize", "socket", "publish"}
  /\ \E ok \in BOOLEAN :
       LET c == closers[k]
       IN IF c.cancel \/ ~ok
          THEN \* CancelledError, or the awaited call raised: close() is left
               /\ closers' = [closers EXCEPT ![k] = CloserFree]
               /\ UNCHANGED <<dg, published>>
          ELSE IF c.pc = "finalize"
          THEN IF dg.sock = "none"
               THEN /\ closers' = [closers EXCEPT ![k] = CloserFree]   \* AttributeError
                    /\ UNCHANGED <<dg, published>>
               ELSE /\ closers' = [closers EXCEPT ![k].pc = "socket"]
                    /\ dg' = [dg EXCEPT !.sock = "closed"]
                    /\ UNCHANGED published
          ELSE IF c.pc = "socket"
          THEN /\ closers' = [CancelTasks(closers) EXCEPT ![k].pc = "publish"]
               /\ dg' = [dg EXCEPT !.pump = IF @ = "running" THEN "cancelled" ELSE @,
                                   !.shipper = IF @ = "running" THEN "cancelled" ELSE @]
               /\ published' = Append(published, Final(dg.complete_call))
          ELSE /\ closers' = [closers EXCEPT ![k] = CloserFree]
               /\ UNCHANGED <<dg, published>>
  /\ UNCHANGED <<bridgeVars, apiVars, budget, swap16, handler, mqtt, broker, conn, pubs>>

\* ------------------------------------------------------------ MQTTClient
MaxPubs == 2       \* publish() and subscribe() calls in flight
MaxRetries == 3    \* _connect_with_retry activations alive at once
MaxClients == 7    \* Client objects alive at once
MaxLost == 1       \* sessions counted after their Client object is lost
PubIds == 1..MaxPubs
RetryIds == 1..MaxRetries
ClientIds == 1..MaxClients
NoClient == 0

\* The connector's state, which the bus client never touches
sttVars == <<swap16, dg, closers, handler, published>>

\* main.py: MQTT_TOPIC_PREFIX.  A topic is the sequence of its '/' parts.
TopicPrefix == "asterisk-dialogflow"
EventTopics == {<<"intent">>, <<"transcript">>, <<"response">>, <<"error">>}
PubTopics == {<<"events">>, <<"newStream">>, <<"channelEnd">>, <<"transcription">>,
              <<"error">>}
SubTopics == {<<"events">>, <<"newStream">>}

\* Payloads: a dict, a str holding a JSON object ("json"), any other str ("text")
PayloadKeys == {{}, {"type"}, {"channelId"}, {"roomName", "port"},
                {"roomName", "port", "channelId"}}
Payloads == {[form |-> f, keys |-> ks] : f \in {"dict", "json"}, ks \in PayloadKeys}
              \cup {[form |-> "text", keys |-> {}]}
NoPayload == [form |-> "none", keys |-> {}]

\* publish, lines 172-177
FullTopic(topic) == IF topic \in EventTopics THEN topic ELSE <<TopicPrefix>> \o topic

\* Mutation of ValidateSchema: channelEnd is not checked.
ValidateSchemaNoChannelEnd(full, p) ==
  LET type == full[Len(full)]
      isdict == p.form \in {"dict", "json"}
  IN IF type = "events" THEN isdict /\ "type" \in p.keys
     ELSE IF type = "newStream"
     THEN isdict /\ {"roomName", "port", "channelId"} \subseteq p.keys
     ELSE TRUE

\* MessageValidator.validate_schema: a str that looks like JSON is parsed first
ValidateSchema(full, p) ==
  LET type == full[Len(full)]
      isdict == p.form \in {"dict", "json"}
  IN IF type = "events" THEN isdict /\ "type" \in p.keys
     ELSE IF type = "newStream"
     THEN isdict /\ {"roomName", "port", "channelId"} \subseteq p.keys
     ELSE IF type = "channelEnd" THEN isdict /\ "channelId" \in p.keys
     ELSE TRUE

\* Lines 185-186: json.dumps of a dict
Dumps(p) == IF p.form = "dict" THEN [p EXCEPT !.form = "json"] ELSE p

RetryFree == [pc |-> "free", owner |-> "none", c |-> NoClient, todo |-> {}, n |-> 0]
\* A call of publish or subscribe: where it is, what it was given (while in
\* flight), the Client it awaits, what it returned and on which line
PubFree == [pc |-> "free", topic |-> <<>>, payload |-> NoPayload, c |-> NoClient,
            ret |-> "none", line |-> 0]
NoTask == [pc |-> "none", c |-> NoClient]

\* MQTTClient.__init__
NewClient ==
  [connected |-> FALSE, client |-> NoClient, stopping |-> FALSE, subscriptions |-> {},
   callback |-> FALSE,
   task |-> NoTask,     \* _task: "none", "start", "idle", "iter", "wait", "retry", "done"
   cancel |-> FALSE,    \* _task.cancel() was called and the task has not run since
   disc |-> NoTask]     \* disconnect(): "none", "task", "aexit", "returned"

\* The broker: reachable or not, the sessions open on it with their
\* subscriptions, the sessions whose Client the program has lost (counted up
\* to MaxLost), and the messages it received
NewBroker ==
  [up |-> TRUE, sessions |-> {}, subscribed |-> [c \in ClientIds |-> {}], lost |-> 0,
   sent |-> <<>>]

\* The Client objects the program refers to: self.client, and those the
\* coroutines await
Held(m, cn, ps) ==
  {m.client, m.task.c, m.disc.c} \cup {cn[r].c : r \in RetryIds}
    \cup {ps[k].c : k \in PubIds}

\* A session whose Client object nothing refers to any more is out of the
\* program's reach: it stays open, and is only counted
Collect(b, m, cn, ps) ==
  LET gone == b.sessions \ Held(m, cn, ps)
  IN [b EXCEPT !.sessions = @ \ gone,
               !.subscribed = [c \in ClientIds |-> IF c \in gone THEN {} ELSE @[c]],
               !.lost = Min(@ + Cardinality(gone), MaxLost)]

B0 == [mqtt |-> mqtt, broker |-> broker, conn |-> conn]
SetB(B) ==
  /\ mqtt' = B.mqtt
  /\ conn' = B.conn
  /\ broker' = Collect(B.broker, B.mqtt, B.conn, pubs)

FreeRetries == {r \in RetryIds : conn[r].pc = "free"}
FreePubs == {k \in PubIds : pubs[k].pc = "free"}
FirstOf(S) == CHOOSE x \in S : \A y \in S : x <= y

\* Client(...): a new object, named by the first id nothing refers to
FreshClient(B) == FirstOf(ClientIds \ Held(B.mqtt, B.conn, pubs))

\* The transport of client c works
Alive(B, c) == B.broker.up /\ c \in B.broker.sessions

\* _process_messages from the top of its loop to its next await: lines 205-239
ReaderTop(B) ==
  IF B.mqtt.stopping THEN [B EXCEPT !.mqtt.task = [pc |-> "done", c |-> NoClient]]
  ELSE IF B.mqtt.connected /\ B.mqtt.client # NoClient /\ B.mqtt.callback
  THEN [B EXCEPT !.mqtt.task = [pc |-> "iter", c |-> B.mqtt.client]]
  ELSE [B EXCEPT !.mqtt.task = [pc |-> "idle", c |-> NoClient]]

\* _connect_with_retry returns: to connect() (line 88 creates the reader
\* task), to the reader task (line 257, back to the top of its loop), or the
\* task that publish created ends
RetryReturn(B, r) ==
  LET owner == B.conn[r].owner
      B1 == [B EXCEPT !.conn[r] = RetryFree]
  IN IF owner = "connect" THEN [B1 EXCEPT !.mqtt.task = [pc |-> "start", c |-> NoClient]]
     ELSE IF owner = "task" THEN ReaderTop(B1)
     ELSE B1

\* The except block, lines 116-124, up to its first await
RetryExcept(B, r) ==
  IF B.mqtt.client # NoClient
  THEN [B EXCEPT !.conn[r].pc = "aexit", !.conn[r].c = B.mqtt.client]
  ELSE [B EXCEPT !.conn[r].pc = "sleep", !.conn[r].c = NoClient]

\* Lines 92-106: the loop condition, a new Client, up to the await of __aenter__
RetryTop(B, r) ==
  IF B.mqtt.connected \/ B.mqtt.stopping THEN RetryReturn(B, r)
  ELSE LET c == FreshClient(B)
       IN [B EXCEPT !.mqtt.client = c, !.conn[r].pc = "aenter", !.conn[r].c = c]

\* Lines 110-115: one step of the loop over _subscriptions (a set: changing
\* its size during the iteration raises), up to the await of subscribe
RetryNext(B, r) ==
  IF Cardinality(B.mqtt.subscriptions) # B.conn[r].n THEN RetryExcept(B, r)
  ELSE IF B.conn[r].todo = {} THEN RetryReturn(B, r)
  ELSE IF B.mqtt.client = NoClient THEN RetryExcept(B, r)
  ELSE [B EXCEPT !.conn[r].pc = "subscribe", !.conn[r].c = B.mqtt.client]

\* A new activation of _connect_with_retry
Activation(owner, pc) == [RetryFree EXCEPT !.owner = owner, !.pc = pc]

\* The reader task runs this activation and has a CancelledError pending
Cancelled(r) == conn[r].owner = "task" /\ mqtt.cancel

\* connect(): lines 84-85, into _connect_with_retry; main() calls it before
\* disconnect()
MqttConnect ==
  /\ budget.connects > 0 /\ FreeRetries # {}
  /\ mqtt.disc.pc = "none"
  /\ budget' = [budget EXCEPT !.connects = @ - 1]
  /\ LET r == FirstOf(FreeRetries)
     IN SetB(RetryTop([B0 EXCEPT !.mqtt.stopping = FALSE,
                                 !.conn[r] = Activation("connect", "top")], r))
  /\ UNCHANGED <<bridgeVars, apiVars, sttVars, pubs>>

\* The task publish created starts to run
RetryStart(r) ==
  /\ conn[r].pc = "ready" /\ ~Cancelled(r)
  /\ SetB(RetryTop(B0, r))
  /\ UNCHANGED <<bridgeVars, apiVars, budget, sttVars, pubs>>

\* client.__aenter__() returned or raised: lines 106-111
RetryEntered(r) ==
  /\ conn[r].pc = "aenter" /\ ~Cancelled(r)
  /\ IF broker.up
     THEN SetB(RetryNext([B0 EXCEPT !.broker.sessions = @ \cup {conn[r].c},
                                    !.mqtt.connected = TRUE,
                                    !.conn[r].todo = mqtt.subscriptions,
                                    !.conn[r].n = Cardinality(mqtt.subscriptions)], r))
     ELSE SetB(RetryExcept(B0, r))
  /\ UNCHANGED <<bridgeVars, apiVars, budget, sttVars, pubs>>

\* client.subscribe(topic) returned or raised: lines 111-115
RetrySubscribed(r) ==
  /\ conn[r].pc = "subscribe" /\ ~Cancelled(r)
  /\ IF Alive(B0, conn[r].c)
     THEN \E t \in conn[r].todo :
            SetB(RetryNext([B0 EXCEPT !.broker.subscribed[conn[r].c] = @ \cup {t},
                                      !.conn[r].todo = @ \ {t}], r))
     ELSE SetB(RetryExcept(B0, r))
  /\ UNCHANGED <<bridgeVars, apiVars, budget, sttVars, pubs>>

\* client.__aexit__() returned or raised: lines 120-124
RetryExited(r) ==
  /\ conn[r].pc = "aexit" /\ ~Cancelled(r)
  /\ SetB([B0 EXCEPT !.broker.sessions = @ \ {conn[r].c},
                     !.broker.subscribed[conn[r].c] = {},
                     !.mqtt.client = NoClient,
                     !.conn[r].pc = "sleep", !.conn[r].c = NoClient])
  /\ UNCHANGED <<bridgeVars, apiVars, budget, sttVars, pubs>>

\* asyncio.sleep(reconnect_delay) is over: line 124, back to line 92
RetrySlept(r) ==
  /\ conn[r].pc = "sleep" /\ ~Cancelled(r)
  /\ SetB(RetryTop(B0, r))
  /\ UNCHANGED <<bridgeVars, apiVars, budget, sttVars, pubs>>

\* The reader task starts to run, or its sleep(1) is over: line 239
ReaderWakes ==
  /\ mqtt.task.pc \in {"start", "idle"} /\ ~mqtt.cancel
  /\ SetB(ReaderTop(B0))
  /\ UNCHANGED <<bridgeVars, apiVars, budget, sttVars, pubs>>

\* client.messages raises on a dead transport: lines 245-254
ReaderError ==
  /\ mqtt.task.pc = "iter" /\ ~Alive(B0, mqtt.task.c) /\ ~mqtt.cancel
  /\ mqtt' = [mqtt EXCEPT !.connected = FALSE,
                          !.task = [pc |-> IF mqtt.stopping THEN "done" ELSE "wait",
                                    c |-> NoClient]]
  /\ broker' = Collect(broker, mqtt', conn, pubs)
  /\ UNCHANGED <<bridgeVars, apiVars, budget, sttVars, conn, pubs>>

\* sleep(reconnect_delay) of the reader is over: lines 254-257
ReaderReconnects ==
  /\ mqtt.task.pc = "wait" /\ FreeRetries # {} /\ ~mqtt.cancel
  /\ LET r == FirstOf(FreeRetries)
     IN SetB(RetryTop([B0 EXCEPT !.mqtt.task.pc = "retry",
                                 !.conn[r] = Activation("task", "top")], r))
  /\ UNCHANGED <<bridgeVars, apiVars, budget, sttVars, pubs>>

\* set_callback
SetCallback ==
  /\ ~mqtt.callback
  /\ mqtt' = [mqtt EXCEPT !.callback = TRUE]
  /\ UNCHANGED <<bridgeVars, apiVars, budget, sttVars, broker, conn, pubs>>

\* publish(topic, payload): lines 166-189, up to the await of client.publish
PublishCall(topic, p) ==
  /\ budget.publishes > 0 /\ FreePubs # {}
  /\ budget' = [budget EXCEPT !.publishes = @ - 1]
  /\ LET k == FirstOf(FreePubs)
     IN IF ~mqtt.connected \/ mqtt.client = NoClient
        THEN pubs' = [pubs EXCEPT ![k] = [PubFree EXCEPT !.ret = "false", !.line = 168]]
        ELSE IF ~ValidateSchema(FullTopic(topic), p)
        THEN pubs' = [pubs EXCEPT ![k] = [PubFree EXCEPT !.ret = "false", !.line = 182]]
        ELSE pubs' = [pubs EXCEPT ![k] = [PubFree EXCEPT !.pc = "sending",
                                                         !.topic = topic, !.payload = p,
                                                         !.c = mqtt.client]]
  /\ UNCHANGED <<bridgeVars, apiVars, sttVars, mqtt, broker, conn>>

\* client.publish returned or raised: lines 189-197
PublishReturn(k) ==
  /\ pubs[k].pc = "sending"
  /\ IF Alive(B0, pubs[k].c)
     THEN /\ pubs' = [pubs EXCEPT ![k] = [PubFree EXCEPT !.ret = "true", !.line = 191]]
          /\ broker' = Collect([broker EXCEPT !.sent =
                                  Append(@, [topic |-> FullTopic(pubs[k].topic),
                                             payload |-> Dumps(pubs[k].payload)])],
                               mqtt, conn, pubs')
          /\ UNCHANGED <<mqtt, conn>>
     ELSE /\ FreeRetries # {}
          /\ mqtt' = [mqtt EXCEPT !.connected = FALSE]
          /\ conn' = [conn EXCEPT ![FirstOf(FreeRetries)] = Activation("publish", "ready")]
          /\ pubs' = [pubs EXCEPT ![k] = [PubFree EXCEPT !.ret = "false", !.line = 197]]
          /\ broker' = Collect(broker, mqtt', conn', pubs')
  /\ UNCHANGED <<bridgeVars, apiVars, budget, sttVars>>

\* subscribe(topic): lines 151-156, up to the await of client.subscribe
MqttSubscribe(topic) ==
  /\ budget.subscribes > 0 /\ FreePubs # {}
  /\ budget' = [budget EXCEPT !.subscribes = @ - 1]
  /\ mqtt' = [mqtt EXCEPT !.subscriptions = @ \cup {<<TopicPrefix>> \o topic}]
  /\ LET k == FirstOf(FreePubs)
         call == [PubFree EXCEPT !.topic = <<TopicPrefix>> \o topic]
     IN IF mqtt.connected /\ mqtt.client # NoClient
        THEN pubs' = [pubs EXCEPT ![k] = [call EXCEPT !.pc = "subscribing",
                                                      !.c = mqtt.client]]
        ELSE pubs' = [pubs EXCEPT ![k] = [PubFree EXCEPT !.ret = "true", !.line = 162]]
  /\ UNCHANGED <<bridgeVars, apiVars, sttVars, broker, conn>>

\* client.subscribe returned or raised: lines 156-162
SubscribeReturn(k) ==
  /\ pubs[k].pc = "subscribing"
  /\ IF Alive(B0, pubs[k].c)
     THEN /\ pubs' = [pubs EXCEPT ![k] = [PubFree EXCEPT !.ret = "true", !.line = 162]]
          /\ broker' = Collect([broker EXCEPT !.subscribed[pubs[k].c] =
                                                @ \cup {pubs[k].topic}],
                               mqtt, conn, pubs')
     ELSE /\ pubs' = [pubs EXCEPT ![k] = [PubFree EXCEPT !.ret = "false", !.line = 160]]
          /\ broker' = Collect(broker, mqtt, conn, pubs')
  /\ UNCHANGED <<bridgeVars, apiVars, budget, sttVars, mqtt, conn>>

\* disconnect() from `if self.client` (line 139) to its next await or its end
DiscClient(B) ==
  IF B.mqtt.client # NoClient
  THEN [B EXCEPT !.mqtt.disc = [pc |-> "aexit", c |-> B.mqtt.client]]
  ELSE [B EXCEPT !.mqtt.connected = FALSE,
                 !.mqtt.disc = [pc |-> "returned", c |-> NoClient]]

\* disconnect(): lines 131-141, up to its first await; main() calls it after
\* connect() has returned
MqttDisconnect ==
  /\ budget.disconnects > 0 /\ mqtt.disc.pc = "none"
  /\ \A r \in RetryIds : conn[r].owner # "connect"
  /\ budget' = [budget EXCEPT !.disconnects = @ - 1]
  /\ LET B1 == [B0 EXCEPT !.mqtt.stopping = TRUE]
     IN IF mqtt.task.pc = "none"
        THEN SetB(DiscClient(B1))
        ELSE SetB([B1 EXCEPT !.mqtt.cancel = (mqtt.task.pc # "done"),
                             !.mqtt.disc = [pc |-> "task", c |-> NoClient]])
  /\ UNCHANGED <<bridgeVars, apiVars, sttVars, pubs>>

\* The reader task gets the CancelledError at the await it is suspended in.
\* Lines 241-244 catch it in the try body (connected = False); in the handler
\* of lines 245-257 it leaves the task, but for the bare except of line 121,
\* which swallows it and lets _connect_with_retry go on.
ReaderCancelled ==
  /\ mqtt.cancel
  /\ LET done == [B0 EXCEPT !.mqtt.cancel = FALSE,
                            !.mqtt.task = [pc |-> "done", c |-> NoClient]]
     IN IF mqtt.task.pc \in {"idle", "iter"}
        THEN SetB([done EXCEPT !.mqtt.connected = FALSE])
        ELSE IF mqtt.task.pc = "retry"
        THEN LET r == CHOOSE r \in RetryIds : conn[r].owner = "task"
             IN IF conn[r].pc = "aexit"
                THEN \E shut \in BOOLEAN :
                       SetB([B0 EXCEPT !.mqtt.cancel = FALSE,
                                       !.mqtt.client = NoClient,
                                       !.broker.sessions =
                                          IF shut THEN @ \ {conn[r].c} ELSE @,
                                       !.conn[r].pc = "sleep", !.conn[r].c = NoClient])
                ELSE SetB([done EXCEPT !.conn[r] = RetryFree])
        ELSE SetB(done)
  /\ UNCHANGED <<bridgeVars, apiVars, budget, sttVars, pubs>>

\* `await self._task` is over: lines 135-141
DisconnectTaskDone ==
  /\ mqtt.disc.pc = "task" /\ mqtt.task.pc = "done"
  /\ SetB(DiscClient(B0))
  /\ UNCHANGED <<bridgeVars, apiVars, budget, sttVars, pubs>>

\* client.__aexit__() returned or raised: lines 141-146
DisconnectExited ==
  /\ mqtt.disc.pc = "aexit"
  /\ SetB([B0 EXCEPT !.broker.sessions = @ \ {mqtt.disc.c},
                     !.broker.subscribed[mqtt.disc.c] = {},
                     !.mqtt.client = NoClient,
                     !.mqtt.connected = FALSE,
                     !.mqtt.disc = [pc |-> "returned", c |-> NoClient]])
  /\ UNCHANGED <<bridgeVars, apiVars, budget, sttVars, pubs>>

\* The broker, or the network to it, goes down: every session is lost
BrokerDown ==
  /\ broker.up /\ budget.outages > 0
  /\ budget' = [budget EXCEPT !.outages = @ - 1]
  /\ broker' = [broker EXCEPT !.up = FALSE, !.sessions = {},
                              !.subscribed = [c \in ClientIds |-> {}]]
  /\ UNCHANGED <<bridgeVars, apiVars, sttVars, mqtt, conn, pubs>>

\* The broker is reachable again
BrokerUp ==
  /\ ~broker.up
  /\ broker' = [broker EXCEPT !.up = TRUE]
  /\ UNCHANGED <<bridgeVars, apiVars, budget, sttVars, mqtt, conn, pubs>>

\* ------------------------------------------------------------ api.py: API token
\* Strings (header values, tokens) are sequences of characters; a header or an
\* environment variable is absent or present with a value.
Str(s) == [present |-> TRUE, value |-> s]
Unset == [present |-> FALSE, value |-> <<>>]

\* `x or ""`
OrEmpty(h) == IF h.present THEN h.value ELSE <<>>

\* str.strip()
RECURSIVE LStrip(_)
LStrip(s) == IF s # <<>> /\ Head(s) = " " THEN LStrip(Tail(s)) ELSE s
RECURSIVE RStrip(_)
RStrip(s) == IF s # <<>> /\ s[Len(s)] = " " THEN RStrip(SubSeq(s, 1, Len(s) - 1)) ELSE s
Strip(s) == RStrip(LStrip(s))

\* str.lower(), over the letters the model uses
LowerChar(ch) ==
  CASE ch = "B" -> "b" [] ch = "E" -> "e" [] ch = "A" -> "a" [] ch = "R" -> "r"
    [] OTHER -> ch
Lower(s) == [i \in 1..Len(s) |-> LowerChar(s[i])]

StartsWith(s, p) == Len(s) >= Len(p) /\ SubSeq(s, 1, Len(p)) = p

BearerPrefix == <<"b", "e", "a", "r", "e", "r", " ">>

\* Mutation of _require_api_token_if_configured: X-Api-Token is also read when
\* the Bearer token does not match.
RequireApiTokenEitherHeader(api_token, authorization, x_api_token) ==
  LET configured_token == Strip(OrEmpty(api_token))
      auth == Strip(OrEmpty(authorization))
      bearer == IF StartsWith(Lower(auth), BearerPrefix)
                THEN Strip(SubSeq(auth, 8, Len(auth))) ELSE <<>>
      xtoken == Strip(OrEmpty(x_api_token))
  IN IF configured_token = <<>> THEN "pass"
     ELSE IF bearer = configured_token \/ xtoken = configured_token THEN "pass"
     ELSE "401"

\* _require_api_token_if_configured: "pass" when it returns, "401" when it
\* raises.  None and "" are both the empty sequence: the code tests them with
\* `not` only.
RequireApiTokenIfConfigured(api_token, authorization, x_api_token) ==
  LET configured_token == Strip(OrEmpty(api_token))
      auth == Strip(OrEmpty(authorization))
      bearer == IF StartsWith(Lower(auth), BearerPrefix)
                THEN Strip(SubSeq(auth, 8, Len(auth))) ELSE <<>>
      provided_token == IF bearer # <<>> THEN bearer ELSE Strip(OrEmpty(x_api_token))
  IN IF configured_token = <<>> THEN "pass"
     ELSE IF provided_token = <<>> \/ provided_token # configured_token THEN "401"
     ELSE "pass"

GateIdle == [authorization |-> Unset, x_api_token |-> Unset, out |-> "none"]
NoEnv == [api_token |-> Unset, openai_api_key |-> FALSE, pg |-> FALSE]

\* A request to an /api/ route passes the dependency of the router
RequireApiToken ==
  /\ gate.out = "none"
  /\ gate' = [gate EXCEPT !.out = RequireApiTokenIfConfigured(env.api_token,
                                     gate.authorization, gate.x_api_token)]
  /\ UNCHANGED <<bridgeVars, budget, sttVars, mqtt, broker, conn, pubs, rows, chunks,
                 reqs, env, ret, schema>>

\* ------------------------------------------------------------ db.py
MaxRequests == 2   \* get_transcription requests
UniqueIds == {"1.1", "2.2"}
RowIds == 1..Cardinality(UniqueIds)
ReqIds == 1..MaxRequests
NoTranscript == 0  \* transcript_id is None; no row

\* Texts: what a provider or a caller can hand over as raw_transcription.  "/"
\* stands for a place where the text splitter cuts.
Texts == {<<>>, <<" ">>, <<"a">>, <<" ", "a">>, <<"a", "/", " ", "/", "b">>}

\* TRANSCRIPT_STATES
TranscriptStates == {"progress", "failed", "summarizing", "done"}

NoRow == [id |-> NoTranscript, state |-> "none", raw |-> <<>>]

\* The live-transcription side, which the batch API and the database leave alone
liveVars == <<bridgeVars, budget, sttVars, mqtt, broker, conn, pubs>>

\* validate_uniqueid: the form field matches ^\d+\.\d+$
ValidUniqueid(u) == u \in UniqueIds
UniqueidInputs == UniqueIds \cup {"", "abc"}

\* BIGSERIAL: rows are numbered in insertion order
NextRowId(R) == Cardinality({u \in UniqueIds : R[u].id # NoTranscript}) + 1
RowOf(R, id) == {u \in UniqueIds : R[u].id = id}

\* upsert_transcript_progress: INSERT (uniqueid, "", 'progress') ON CONFLICT
\* (uniqueid) DO UPDATE SET state = 'progress'
UpsertTranscriptProgress(R, u) ==
  IF R[u].id = NoTranscript
  THEN [R EXCEPT ![u] = [id |-> NextRowId(R), state |-> "progress", raw |-> <<>>]]
  ELSE [R EXCEPT ![u].state = "progress"]

\* set_transcript_state: UPDATE transcripts SET state WHERE id
SetTranscriptState(R, id, st) ==
  [u \in UniqueIds |-> IF R[u].id = id /\ id # NoTranscript
                       THEN [R[u] EXCEPT !.state = st] ELSE R[u]]

\* upsert_transcript_raw: INSERT (uniqueid, raw) with the default state 'done'
\* ON CONFLICT (uniqueid) DO UPDATE SET raw_transcription
UpsertTranscriptRaw(R, u, raw) ==
  IF R[u].id = NoTranscript
  THEN [R EXCEPT ![u] = [id |-> NextRowId(R), state |-> "done", raw |-> raw]]
  ELSE [R EXCEPT ![u].raw = raw]

\* RecursiveCharacterTextSplitter.split_text: the pieces between the cuts
RECURSIVE SplitText(_)
SplitText(s) ==
  LET cut == {i \in 1..Len(s) : s[i] = "/"}
  IN IF cut = {} THEN <<s>>
     ELSE LET i == CHOOSE j \in cut : \A k \in cut : j <= k
          IN <<SubSeq(s, 1, i - 1)>> \o SplitText(SubSeq(s, i + 1, Len(s)))

\* _split_text_for_embedding: the stripped pieces that are not empty
SplitTextForEmbedding(text) ==
  LET pieces == SplitText(text)
      stripped == [i \in 1..Len(pieces) |-> Strip(pieces[i])]
  IN SelectSeq(stripped, LAMBDA c : c # <<>>)

\* replace_transcript_embeddings, when embed_documents succeeds: the stored
\* sequence holds the contents by chunk_index, from 0
ReplaceTranscriptEmbeddings(C, id, raw) ==
  LET cs == SplitTextForEmbedding(raw)
  IN IF cs = <<>> THEN C ELSE [C EXCEPT ![id] = cs]

NoReturn == [id |-> NoTranscript, raw |-> <<>>, n |-> 0]

\* ------------------------------------------------------------ db.py: _ensure_schema
MaxThreads == 3    \* threads that call _ensure_schema
ThreadIds == 1..MaxThreads
NoThread == 0      \* _schema_lock is free

\* Module state at import, and no caller
NoSchema == [lock |-> NoThread, initialized |-> FALSE, boots |-> 0,
             th |-> [t \in ThreadIds |-> "new"]]

\* Mutation of AfterLock: the flag is not read again under the lock.
AfterLockNoRecheck(initialized) == "ddl"

\* Lines 81-82: the second test of the flag, with the lock held
AfterLock(initialized) == IF initialized THEN "returned" ELSE "ddl"

\* _ensure_schema() is called: lines 77-80, up to the acquisition of the lock
EnsureSchema(t) ==
  /\ schema.th[t] = "new"
  /\ schema' = [schema EXCEPT !.th[t] = IF schema.initialized THEN "returned" ELSE "lock"]
  /\ UNCHANGED <<liveVars, rows, chunks, reqs, env, gate, ret>>

\* The thread gets _schema_lock: lines 80-86
SchemaLocked(t) ==
  /\ schema.th[t] = "lock" /\ schema.lock = NoThread
  /\ LET to == AfterLock(schema.initialized)
     IN schema' = [schema EXCEPT !.th[t] = to,
                                 !.lock = IF to = "ddl" THEN t ELSE NoThread]
  /\ UNCHANGED <<liveVars, rows, chunks, reqs, env, gate, ret>>

\* The block of lines 86-145 is over: the connection or a statement of the
\* core schema raised, or the core schema was committed, with or without the
\* HNSW index (whose failure is caught at line 144).  Lines 147 and the release
\* of the lock follow.
BootstrapOutcomes == {"raised", "ok", "ok_without_hnsw"}
Bootstrapped(t, o) ==
  /\ schema.th[t] = "ddl"
  /\ schema' = IF o = "raised"
               THEN [schema EXCEPT !.th[t] = "raised", !.lock = NoThread]
               ELSE [schema EXCEPT !.th[t] = o, !.lock = NoThread, !.initialized = TRUE,
                                   !.boots = Min(@ + 1, 2)]
  /\ UNCHANGED <<liveVars, rows, chunks, reqs, env, gate, ret>>

\* Direct calls of the database layer (call_processor.py, tests)
UpsertProgressCall(u) ==
  /\ rows' = UpsertTranscriptProgress(rows, u)
  /\ UNCHANGED <<liveVars, chunks, reqs, env, gate, ret, schema>>

SetStateCall(id, st) ==
  /\ RowOf(rows, id) # {}
  /\ rows' = SetTranscriptState(rows, id, st)
  /\ UNCHANGED <<liveVars, chunks, reqs, env, gate, ret, schema>>

UpsertRawCall(u, raw) ==
  /\ rows' = UpsertTranscriptRaw(rows, u, raw)
  /\ UNCHANGED <<liveVars, chunks, reqs, env, gate, ret, schema>>

\* replace_transcript_embeddings(id, raw); embedded = embed_documents returned
ReplaceEmbeddingsCall(id, raw, embedded) ==
  /\ RowOf(rows, id) # {}
  /\ IF embedded \/ SplitTextForEmbedding(raw) = <<>>
     THEN /\ chunks' = ReplaceTranscriptEmbeddings(chunks, id, raw)
          /\ ret' = [id |-> id, raw |-> raw, n |-> Len(SplitTextForEmbedding(raw))]
     ELSE UNCHANGED <<chunks, ret>>
  /\ UNCHANGED <<liveVars, rows, reqs, env, gate, schema>>

\* ------------------------------------------------------------ api.py: get_transcription
\* A request is suspended in one of its awaits: "reserve"
\* (upsert_transcript_progress), "provider" (the POST to the provider),
\* "mark_failed" (set_transcript_state failed, before the response in `status`
\* goes out), "save" (upsert_transcript_raw), "summarizing"
\* (set_transcript_state summarizing), "processor" (_run_call_processor),
\* "enriched" and "mark_done" (set_transcript_state done, with and without
\* enrichment).
ReqNew == [pc |-> "new", u |-> "", persist |-> FALSE, summary |-> FALSE,
           tid |-> NoTranscript, raw |-> <<>>, status |-> 0]

\* The response goes out
Respond(q, status) == [q EXCEPT !.pc = "returned", !.status = status, !.raw = <<>>]
Await(q, pc) == [q EXCEPT !.pc = pc]
\* set_transcript_state(failed) is awaited when a row was reserved
Fail(q, status) ==
  IF q.tid # NoTranscript THEN [q EXCEPT !.pc = "mark_failed", !.status = status]
  ELSE Respond(q, status)

\* Mutation of Entry: the row is reserved whenever the database is configured.
EntryReserveAlways(pg, mime_ok, u, persist) ==
  IF ~mime_ok THEN "400"
  ELSE IF persist /\ ~ValidUniqueid(u) THEN "400"
  ELSE IF pg THEN "reserve"
  ELSE "provider"

\* Lines 365-401: where the request goes before its first await
Entry(pg, mime_ok, u, persist) ==
  IF ~mime_ok THEN "400"
  ELSE IF persist /\ ~ValidUniqueid(u) THEN "400"
  ELSE IF pg /\ persist THEN "reserve"
  ELSE "provider"

\* POST /api/get_transcription arrives
GetTranscription(r, mime_ok, u, persist, summary) ==
  /\ reqs[r].pc = "new"
  /\ LET q == [reqs[r] EXCEPT !.u = u, !.persist = persist, !.summary = summary]
         to == Entry(env.pg, mime_ok, u, persist)
     IN reqs' = [reqs EXCEPT ![r] = IF to = "400" THEN Respond(q, 400) ELSE Await(q, to)]
  /\ UNCHANGED <<liveVars, rows, chunks, env, gate, ret, schema>>

\* upsert_transcript_progress returned or raised: lines 401-411
Reserved(r, ok) ==
  /\ reqs[r].pc = "reserve"
  /\ LET q == reqs[r]
     IN IF ok /\ ValidUniqueid(q.u)
        THEN /\ rows' = UpsertTranscriptProgress(rows, q.u)
             /\ reqs' = [reqs EXCEPT ![r] = [Await(q, "provider")
                                               EXCEPT !.tid = rows'[q.u].id]]
        ELSE /\ reqs' = [reqs EXCEPT ![r] = Respond(q, 500)]
             /\ UNCHANGED rows
  /\ UNCHANGED <<liveVars, chunks, env, gate, ret, schema>>

ProviderErrors == {"http_status", "timeout", "request_error", "exception"}
BadBodies == {"not_json", "wrong_type", "missing_key"}
ErrorStatus(o) ==
  CASE o = "http_status" -> 401 [] o = "timeout" -> 504 [] o = "request_error" -> 502
    [] OTHER -> 500

\* The provider call is over: lines 465-565.  A body that is not JSON raises at
\* line 529 and a body of the wrong type raises TypeError in the parsing; no
\* handler of get_transcription catches either, so the framework answers 500.
ProviderReplied(r, o, text) ==
  /\ reqs[r].pc = "provider"
  /\ LET q == reqs[r]
         raw == Strip(text)
     IN reqs' = [reqs EXCEPT ![r] =
          IF o \in ProviderErrors THEN Fail(q, ErrorStatus(o))
          ELSE IF o \in {"not_json", "wrong_type"} THEN Respond(q, 500)
          ELSE IF o = "missing_key" THEN Fail(q, 500)
          ELSE IF q.tid # NoTranscript THEN [Await(q, "save") EXCEPT !.raw = raw]
          ELSE Respond(q, 200)]
  /\ UNCHANGED <<liveVars, rows, chunks, env, gate, ret, schema>>

\* set_transcript_state(failed) returned or raised (the exception is logged)
MarkedFailed(r, ok) ==
  /\ reqs[r].pc = "mark_failed"
  /\ rows' = IF ok THEN SetTranscriptState(rows, reqs[r].tid, "failed") ELSE rows
  /\ reqs' = [reqs EXCEPT ![r] = Respond(reqs[r], reqs[r].status)]
  /\ UNCHANGED <<liveVars, chunks, env, gate, ret, schema>>

\* upsert_transcript_raw returned or raised: lines 567-597
Saved(r, ok) ==
  /\ reqs[r].pc = "save"
  /\ LET q == reqs[r]
     IN IF ok
        THEN /\ rows' = UpsertTranscriptRaw(rows, q.u, q.raw)
             /\ reqs' = [reqs EXCEPT ![r] =
                  [Await(q, IF env.openai_api_key /\ q.raw # <<>>
                            THEN "summarizing" ELSE "mark_done")
                     EXCEPT !.tid = rows'[q.u].id]]
        ELSE /\ reqs' = [reqs EXCEPT ![r] = Fail(q, 500)]
             /\ UNCHANGED rows
  /\ UNCHANGED <<liveVars, chunks, env, gate, ret, schema>>

\* set_transcript_state(summarizing) returned or raised: lines 600, 608-613
MarkedSummarizing(r, ok) ==
  /\ reqs[r].pc = "summarizing"
  /\ IF ok
     THEN /\ rows' = SetTranscriptState(rows, reqs[r].tid, "summarizing")
          /\ reqs' = [reqs EXCEPT ![r] = Await(reqs[r], "processor")]
     ELSE /\ reqs' = [reqs EXCEPT ![r] = Fail(reqs[r], 200)]
          /\ UNCHANGED rows
  /\ UNCHANGED <<liveVars, chunks, env, gate, ret, schema>>

\* _run_call_processor returned or raised (exit code, timeout).  The worker
\* replaces the embeddings and, with summary, asks the LLM: "late" is a failure
\* after the embeddings were written.
ProcessorOutcomes == {"ok", "failed", "late"}
ProcessorDone(r, o) ==
  /\ reqs[r].pc = "processor"
  /\ o = "late" => reqs[r].summary
  /\ chunks' = IF o = "failed" THEN chunks
               ELSE ReplaceTranscriptEmbeddings(chunks, reqs[r].tid, reqs[r].raw)
  /\ reqs' = [reqs EXCEPT ![r] = IF o = "ok" THEN Await(reqs[r], "enriched")
                                 ELSE Fail(reqs[r], 200)]
  /\ UNCHANGED <<liveVars, rows, env, gate, ret, schema>>

\* set_transcript_state(done) returned or raised: lines 607-620
MarkedDone(r, ok) ==
  /\ reqs[r].pc \in {"enriched", "mark_done"}
  /\ rows' = IF ok THEN SetTranscriptState(rows, reqs[r].tid, "done") ELSE rows
  /\ reqs' = [reqs EXCEPT ![r] = IF ok \/ reqs[r].pc = "mark_done"
                                 THEN Respond(reqs[r], 200) ELSE Fail(reqs[r], 200)]
  /\ UNCHANGED <<liveVars, chunks, env, gate, ret, schema>>

\* An empty database and no request
InitTables ==
  /\ rows = [u \in UniqueIds |-> NoRow]
  /\ chunks = [i \in RowIds |-> <<>>]
  /\ reqs = [r \in ReqIds |-> ReqNew]
  /\ ret = NoReturn
  /\ schema = NoSchema

InitApi == InitTables /\ env = NoEnv /\ gate = GateIdle

\* ------------------------------------------------------------ specifications
InitBridge(b) ==
  /\ channels = [c \in CallIds |-> EmptyChannel]
  /\ reg = <<>>
  /\ closed = {}
  /\ pending = {}
  /\ streams = <<>>
  /\ remote = [p \in Ports |-> NoAddr]
  /\ loop = LoopIdle
  /\ tasks = [t \in TaskIds |-> TaskFree]
  /\ api = [a \in ApiIds |-> ApiIdle]
  /\ main = MainAt("run", <<>>, 0)
  /\ is_shutting_down = FALSE
  /\ ws_open = TRUE
  /\ session_closed = FALSE
  /\ delay = 1
  /\ fails = 0
  /\ pbx = [x \in AllChans |-> "none"]
  /\ bridged = {}
  /\ sending = {}
  /\ continued = {}
  /\ failed_setup = {}
  /\ cc_raised = FALSE
  /\ budget = b
  /\ buffer = [p \in Ports |-> <<>>]
  /\ active = [p \in Ports |-> FALSE]

\* The connector and the bus client before they are used
NoElapsed == 0 - 1    \* call_elapsed_at_start is None
InitBus ==
  /\ mqtt = NewClient
  /\ broker = NewBroker
  /\ conn = [r \in RetryIds |-> RetryFree]
  /\ pubs = [k \in PubIds |-> PubFree]

InitConnector(kw) ==
  /\ dg = NewConnector(kw)
  /\ closers = [k \in CloserIds |-> CloserFree]
  /\ handler = HandlerIdle
  /\ published = <<>>

InitSide ==
  /\ InitConnector(NoElapsed)
  /\ InitBus
  /\ InitApi

\* main.py: RTP_SWAP16 defaults to true
InitWith(b) == InitBridge(b) /\ swap16 = TRUE /\ InitSide

\* The handling of StasisStart events by the event loop task
Setup ==
  \/ \E c \in CallIds, lk \in {LinkedL, NoId} : StasisStartNormal(c, lk)
  \/ \E lk \in {LinkedL, NoId} : LinkedidReturn(lk)
  \/ SnoopReturn
  \/ ConnectedInfoReturn
  \/ \E a \in AuxChans : StasisStartSnoop(a)
  \/ ExtMediaReturn
  \/ \E a \in AuxChans : StasisStartExt(a)
  \/ BridgeReturn
  \/ AddChannelReturn
  \/ SleepReturn
  \/ ContinueReturn

Duplicate ==
  \/ \E c \in CallIds : StasisStartDup(c)
  \/ DupContinueReturn

Teardown ==
  \/ \E x \in AllChans : ChannelHangup(x)
  \/ \E a \in AuxChans : ChannelLeftBridge(a)
  \/ LoopCloseStep

Connection ==
  \/ WsDrop
  \/ LoopWsClosed

Reconnect ==
  \/ ReconnectWake
  \/ ReconnectReturn

Shutdown ==
  \/ Disconnect
  \/ MainCloseStep
  \/ MainWsClosed
  \/ MainSessionClosed
  \/ MainMqttDisconnected

Requests ==
  \/ \E a \in ApiIds, id \in Ids : StartTranscription(a, id)
  \/ \E a \in ApiIds : StartElapsedReturn(a)
  \/ \E a \in ApiIds, id \in Ids : StopTranscription(a, id)
  \/ \E a \in ApiIds : StopCloseReturn(a)

Connector ==
  \/ \E t \in TaskIds : TaskRun(t)
  \/ \E t \in TaskIds : TaskElapsedReturn(t)
  \/ \E t \in TaskIds : TaskStartReturn(t)
  \/ \E t \in TaskIds : TaskCloseStep(t)

\* The PBX sends from the source ports of its external-media channels
Datagrams == \E p \in sending : DatagramReceived(p, KeepAlive)

NoEvents == [calls |-> 0, api |-> 0, hangups |-> 0, left |-> 0, dup |-> 0,
             drops |-> 0, fail |-> 0, refuse |-> 0, dgrams |-> 0, reads |-> 0,
             events |-> 0, closes |-> 0, errors |-> 0, taskfails |-> 0,
             connects |-> 0, publishes |-> 0, subscribes |-> 0, outages |-> 0,
             disconnects |-> 0, ends |-> 0]

\* One call, transcription requests and connector tasks
Budget == [NoEvents EXCEPT !.calls = 1, !.api = MaxApiCalls, !.fail = MaxRequestFails]
Init == InitWith(Budget)
Next == Setup \/ Requests \/ Connector
Spec == Init /\ [][Next]_vars

\* Calls side by side, torn down by channelHangup and ChannelLeftBridge
InitCalls == InitWith([NoEvents EXCEPT !.calls = MaxCalls, !.hangups = MaxHangups,
                                       !.left = MaxLeft])
NextCalls == Setup \/ Teardown
SpecCalls == InitCalls /\ [][NextCalls]_vars

\* Calls side by side and the RTP datagrams of their external-media channels
InitRtp == InitWith([NoEvents EXCEPT !.calls = MaxCalls])
NextRtp == Setup \/ Datagrams
SpecRtp == InitRtp /\ [][NextRtp]_vars

\* One call, WebSocket drops, the reconnect loop and the shutdown
InitConn == InitWith([NoEvents EXCEPT !.calls = 1, !.drops = MaxDrops,
                                      !.refuse = MaxFails])
NextConn == Setup \/ Connection \/ Reconnect \/ Shutdown
SpecConn == InitConn /\ [][NextConn]_vars

\* Calls whose ARI requests can fail.  The event loop task always goes on: an
\* awaited request returns or raises, a sleep ends, and the PBX delivers the
\* StasisStart of every auxiliary channel it created.  New calls and repeated
\* StasisStart events may or may not come.
Progress ==
  \/ \E lk \in {LinkedL, NoId} : LinkedidReturn(lk)
  \/ SnoopReturn
  \/ ConnectedInfoReturn
  \/ \E a \in AuxChans : StasisStartSnoop(a)
  \/ ExtMediaReturn
  \/ \E a \in AuxChans : StasisStartExt(a)
  \/ BridgeReturn
  \/ AddChannelReturn
  \/ SleepReturn
  \/ ContinueReturn
  \/ DupContinueReturn
  \/ ReconnectWake
  \/ ReconnectReturn

InitFair == InitWith([NoEvents EXCEPT !.calls = MaxCalls, !.dup = MaxDup,
                                      !.fail = MaxRequestFails])
NextFair == Setup \/ Duplicate \/ Reconnect
FairSpec == InitFair /\ [][NextFair]_vars /\ WF_vars(Progress)

\* The RTP server on its own: streams created and ended, datagrams of every
\* length from two peers, reads of the audio pump, and the stop at shutdown
MaxDatagrams == 2  \* datagrams that carry audio
MaxReads == 1      \* reads of the audio pump
RingPorts == {Port("c1", d) : d \in Dirs}
ReadSizes == {2}
InitRing ==
  /\ InitBridge([NoEvents EXCEPT !.dgrams = MaxDatagrams, !.reads = MaxReads])
  /\ swap16 \in BOOLEAN
  /\ InitConnector(NoElapsed)
  /\ InitBus
  /\ InitApi
NextRing ==
  \/ \E p \in RingPorts : StreamCreated(p)
  \/ \E p \in RingPorts : StreamEnded(p)
  \/ \E p \in RingPorts : StreamDeactivated(p)
  \/ \E addr \in RingPorts, d \in Dgrams : DatagramReceived(addr, d)
  \/ \E p \in RingPorts, n \in ReadSizes : ReaderRead(p, n)
  \/ Disconnect
  \/ MainWsClosed
  \/ MainSessionClosed
  \/ MainMqttDisconnected
SpecRing == InitRing /\ [][NextRing]_vars

\* One connector: its start, the provider's transcript and error events, task
\* failures and close() calls of the orchestrator
MaxEvents == 2     \* transcript events of the provider
MaxErrors == 1     \* error events of the provider
MaxCloseCalls == 1 \* close() calls of the orchestrator
MaxTaskFails == 1  \* failures of the pump or shipper task
ElapsedAtStart == 5
InitStt ==
  /\ InitBridge([NoEvents EXCEPT !.events = MaxEvents, !.errors = MaxErrors,
                                 !.closes = MaxCloseCalls, !.taskfails = MaxTaskFails])
  /\ swap16 = TRUE
  /\ \E kw \in {NoElapsed, ElapsedAtStart} : InitConnector(kw)
  /\ InitBus
  /\ InitApi
NextStt ==
  \/ DgStart
  \/ DgStartReturn
  \/ \E ev \in Events : OnMessage(ev)
  \/ OnMessagePublished
  \/ CloseCalled
  \/ OnError
  \/ \E which \in {"pump", "shipper"} : TaskFailedDg(which)
  \/ \E k \in CloserIds : CloserStep(k)
SpecStt == InitStt /\ [][NextStt]_vars

\* The bus client, the calls of its users and the broker
MaxPublishes == 1  \* publish() calls
MaxSubscribes == 1 \* subscribe() calls
InitBusSpec ==
  /\ InitBridge([NoEvents EXCEPT !.connects = 1, !.publishes = MaxPublishes,
                                 !.subscribes = MaxSubscribes, !.outages = 1,
                                 !.disconnects = 1])
  /\ swap16 = TRUE
  /\ InitSide
ClientProgress ==
  \/ \E r \in RetryIds :
       RetryStart(r) \/ RetryEntered(r) \/ RetrySubscribed(r) \/ RetryExited(r)
         \/ RetrySlept(r)
  \/ ReaderWakes \/ ReaderError \/ ReaderReconnects
  \/ \E k \in PubIds : PublishReturn(k) \/ SubscribeReturn(k)
NextBus ==
  \/ MqttConnect
  \/ MqttDisconnect
  \/ ReaderCancelled
  \/ DisconnectTaskDone
  \/ DisconnectExited
  \/ SetCallback
  \/ \E t \in PubTopics, p \in Payloads : PublishCall(t, p)
  \/ \E t \in SubTopics : MqttSubscribe(t)
  \/ BrokerDown
  \/ BrokerUp
  \/ ClientProgress
SpecBus == InitBusSpec /\ [][NextBus]_vars

\* One message that passes the schema check, published over a broker that goes
\* down and comes back; the coroutines of the client always get to run and the
\* broker always comes back
MaxOutages == 2    \* times the broker goes down
Message == [form |-> "dict", keys |-> {}]
InitFairBus ==
  /\ InitBridge([NoEvents EXCEPT !.connects = 1, !.publishes = MaxPublishes,
                                 !.subscribes = MaxSubscribes, !.outages = MaxOutages])
  /\ swap16 = TRUE
  /\ InitSide
NextFairBus ==
  \/ MqttConnect
  \/ SetCallback
  \/ PublishCall(<<"transcription">>, Message)
  \/ \E t \in SubTopics : MqttSubscribe(t)
  \/ BrokerDown
  \/ BrokerUp
  \/ ClientProgress
FairBus ==
  InitFairBus /\ [][NextFairBus]_vars /\ WF_vars(ClientProgress) /\ WF_vars(BrokerUp)

\* Calls that are set up and whose channels leave Stasis
MaxEnds == 1       \* StasisEnd events
InitEnd == InitWith([NoEvents EXCEPT !.calls = MaxCalls, !.ends = MaxEnds])
NextEnd == Setup \/ \E x \in AllChans : StasisEnd(x)
SpecEnd == InitEnd /\ [][NextEnd]_vars

\* Calls side by side whose external-media channels send audio
AudioDgram == Dgram(RtpHeaderSize + 1)
InitTaps == InitWith([NoEvents EXCEPT !.calls = MaxCalls, !.dgrams = MaxDatagrams])
NextTaps == Setup \/ \E p \in sending : DatagramReceived(p, AudioDgram)
SpecTaps == InitTaps /\ [][NextTaps]_vars

\* One connector with its two streams: datagrams arrive while the pump runs
InitPump == InitWith([NoEvents EXCEPT !.dgrams = MaxDatagrams])
NextPump ==
  \/ \E d \in Dirs : StreamCreated(PumpPorts[d])
  \/ \E addr \in RingPorts, d \in Dgrams : DatagramReceived(addr, d)
  \/ DgStart
  \/ DgStartReturn
  \/ \E k \in 1..MaxPolls : PumpCollect(k)
  \/ PumpResumed
SpecPump == InitPump /\ [][NextPump]_vars

\* Calls being set up while main() shuts down
InitShutdown == InitWith([NoEvents EXCEPT !.calls = MaxCalls])
NextShutdown == Setup \/ Shutdown
SpecShutdown == InitShutdown /\ [][NextShutdown]_vars

\* The live-transcription side, idle
InitLive ==
  /\ InitBridge(NoEvents)
  /\ swap16 = TRUE
  /\ InitConnector(NoElapsed)
  /\ InitBus

\* One request at the API token check, for every configured token and every
\* pair of headers
Secret == <<"s">>
EnvTokens == {Unset, Str(<<>>), Str(<<" ">>), Str(Secret), Str(<<" ", "s", " ">>)}
AuthorizationHeaders ==
  {Unset, Str(<<>>),
   Str(<<"B", "e", "a", "r", "e", "r", " ", "s">>),
   Str(<<"b", "e", "a", "r", "e", "r", " ", "s">>),
   Str(<<" ", "B", "E", "A", "R", "E", "R", " ", " ", "s", " ">>),
   Str(<<"B", "e", "a", "r", "e", "r", " ", "w">>),
   Str(<<"B", "e", "a", "r", "e", "r", " ">>),
   Str(<<"B", "e", "a", "r", "e", "r", "s">>),
   Str(<<"x", " ", "s">>),
   Str(Secret)}
TokenHeaders == {Unset, Str(<<>>), Str(Secret), Str(<<" ", "s", " ">>), Str(<<"w">>)}
InitAuth ==
  /\ InitLive
  /\ InitTables
  /\ env \in [api_token : EnvTokens, openai_api_key : {FALSE}, pg : {FALSE}]
  /\ gate \in [authorization : AuthorizationHeaders, x_api_token : TokenHeaders,
               out : {"none"}]
NextAuth == RequireApiToken
SpecAuth == InitAuth /\ [][NextAuth]_vars

\* Threads of the pool entering the database layer at the same time
InitSchema == InitLive /\ InitApi
NextSchema ==
  \/ \E t \in ThreadIds : EnsureSchema(t)
  \/ \E t \in ThreadIds : SchemaLocked(t)
  \/ \E t \in ThreadIds, o \in BootstrapOutcomes : Bootstrapped(t, o)
SpecSchema == InitSchema /\ [][NextSchema]_vars

\* The database layer under direct calls
InitDb == InitLive /\ InitApi
NextDb ==
  \/ \E u \in UniqueIds : UpsertProgressCall(u)
  \/ \E id \in RowIds, st \in TranscriptStates : SetStateCall(id, st)
  \/ \E u \in UniqueIds, raw \in Texts : UpsertRawCall(u, raw)
  \/ \E id \in RowIds, raw \in Texts, embedded \in BOOLEAN :
       ReplaceEmbeddingsCall(id, raw, embedded)
SpecDb == InitDb /\ [][NextDb]_vars

\* Concurrent batch requests, with and without a database and an LLM key
Transcripts == {<<>>, <<" ", "a">>, <<"a", "/", " ", "/", "b">>}
InitBatch ==
  /\ InitLive
  /\ InitTables
  /\ env \in [api_token : {Unset}, openai_api_key : BOOLEAN, pg : BOOLEAN]
  /\ gate = GateIdle
NextBatch ==
  \/ \E r \in ReqIds, mime_ok \in BOOLEAN, u \in UniqueidInputs, persist \in BOOLEAN,
        summary \in BOOLEAN : GetTranscription(r, mime_ok, u, persist, summary)
  \/ \E r \in ReqIds, ok \in BOOLEAN : Reserved(r, ok)
  \/ \E r \in ReqIds, o \in ProviderErrors \cup BadBodies \cup {"ok"}, text \in Transcripts :
       ProviderReplied(r, o, text)
  \/ \E r \in ReqIds, ok \in BOOLEAN : MarkedFailed(r, ok)
  \/ \E r \in ReqIds, ok \in BOOLEAN : Saved(r, ok)
  \/ \E r \in ReqIds, ok \in BOOLEAN : MarkedSummarizing(r, ok)
  \/ \E r \in ReqIds, o \in ProcessorOutcomes : ProcessorDone(r, o)
  \/ \E r \in ReqIds, ok \in BOOLEAN : MarkedDone(r, ok)
SpecBatch == InitBatch /\ [][NextBatch]_vars

\* ------------------------------------------------------------ claims
\* Call c has reached audio-ready and its stream_in is live.
AudioReadyCall(c) ==
  /\ c \in Range(reg)
  /\ channels[c].stream["in"]
  /\ Port(c, "in") \in Range(streams)

\* C1: for every call that reached audio-ready, the speaker identities are
\* swapped exactly when stream_in is bound to the source port of the out
\* direction, whatever the order of the first datagrams and whenever they
\* arrive relative to the 100 ms wait.
C1_SwappedIffBoundToOut ==
  \A c \in CallIds :
    (AudioReadyCall(c) /\ remote[Port(c, "in")] # NoAddr)
      => (channels[c].swapped <=> remote[Port(c, "in")] = Port(c, "out"))

\* The caller slot the next start_transcription / stop_transcription call takes
NextSlot == CHOOSE a \in ApiIds : FirstFree(a)
ApiCalled == budget'.api < budget.api

\* A _start_connector task was created for c in this step.
SpawnedFor(c) ==
  \E t \in TaskIds : tasks[t].pc = "free" /\ tasks'[t] = Thread("spawned", c, NoId, 0)

\* The step of _handle_stasis_start that runs lines 239-248 for c
Registers(c) ==
  /\ loop.pc \in {"idle", "linkedid"}
  /\ loop' = LoopAt("snoop", c, "in")

\* The step after the 100 ms sleep, for a call still registered
BecomesAudioReady(c) ==
  /\ loop.pc = "sleep" /\ loop.call = c /\ loop' # loop
  /\ c \in Range(reg)

C2_Step ==
  /\ (ApiCalled /\ api'[NextSlot].pc = "st_queued")
       => \E id \in Ids : /\ FindChannelsForCallid(G0, id) = <<>>
                          /\ pending' = pending \cup {id}
  /\ \A c \in CallIds :
       /\ Registers(c)
            => /\ c \in Range(reg')
               /\ channels'[c].requested
                    <=> (c \in pending \/ channels'[c].linkedid \in pending)
               /\ ~SpawnedFor(c)
       /\ BecomesAudioReady(c)
            => /\ channels'[c].bridge["in"] /\ channels'[c].bridge["out"]
               /\ {Port(c, "in"), Port(c, "out")} \subseteq Range(streams')
               /\ SpawnedFor(c) <=> channels[c].requested

\* C2: start_transcription(id) with no matching Call queues id; the StasisStart
\* of a normal channel creates the Call with transcription_requested true
\* exactly when its channel id or linkedid is queued, and once both bridges exist
\* and both streams are allocated the connector start is spawned exactly for a
\* requested Call.
C2_QueuedStartApplies == [][C2_Step]_vars

\* A queued request (the only request made) was applied to a call that is now
\* audio-ready, and its connector start has been spawned.
C2_Witness ==
  \E c \in CallIds, t \in TaskIds :
    /\ budget.api = MaxApiCalls - 1
    /\ api[1].pc = "st_queued"
    /\ c \in Range(reg) /\ channels[c].requested /\ channels[c].linkedid = LinkedL
    /\ channels[c].stream["in"] /\ channels[c].stream["out"]
    /\ tasks[t] = Thread("spawned", c, NoId, 0)

\* C3: connector.start() of a Call is invoked only while the Call's
\* transcription_requested is true.
C3_StartOnlyWhileRequested ==
  [][\A t \in TaskIds :
       (tasks[t].pc # "starting" /\ tasks'[t].pc = "starting")
         => channels'[tasks'[t].call].requested]_vars

\* Caller slot a takes a step of stop_transcription: the call itself, or the
\* resumption after connector.close().
StopStep(a) ==
  /\ api'[a].pc \in {"sp_close", "sp_returned"}
  /\ \/ api[a].pc = "sp_close" /\ api'[a] # api[a]
     \/ ApiCalled /\ a = NextSlot

\* The Calls the stop_transcription call of slot a resolved its id to
StopMatched(a) ==
  IF api[a].pc = "sp_close" THEN api[a].matched
  ELSE Range(FindChannelsForCallid(G0, api'[a].id))

\* The Calls whose loop iteration (lines 436-440) runs in this step of slot a
StopHandled(a) ==
  LET before == IF api[a].pc = "sp_close" THEN Tail(api[a].todo)
                ELSE FindChannelsForCallid(G0, api'[a].id)
      after == IF api'[a].pc = "sp_close" THEN Tail(api'[a].todo) ELSE <<>>
  IN (Range(before) \ Range(after)) \cap Range(reg)

\* The parts of the Calls that stop_transcription must leave alone
Resources(ch) ==
  [c \in CallIds |-> <<ch[c].snoop, ch[c].ext, ch[c].bridge, ch[c].port, ch[c].stream>>]

C4_Step ==
  \A a \in ApiIds :
    StopStep(a) =>
      /\ reg' = reg /\ streams' = streams
      /\ Resources(channels') = Resources(channels)
      /\ api[a].pc # "sp_close" => api'[a].id \notin pending'
      /\ \A c \in StopHandled(a) : ~channels'[c].requested
      /\ api'[a].pc = "sp_returned"
           => \A c \in StopMatched(a) \cap Range(reg') :
                ~channels'[c].connector /\ ~channels'[c].started

\* C4: stop_transcription(id) removes id from the pending requests and sets
\* transcription_requested false on every matching Call it processes; when it
\* returns, no matching Call has a connector and connector_started is false on
\* each; no step of stop_transcription changes the registry, the RTP streams or
\* a Call's snoop channels, external-media channels, bridges, source ports and
\* streams.
C4_StopPostcondition == [][C4_Step]_vars

\* C5: when close_channel(c) returns, c is not in the registry, the RTP server
\* holds no stream for c's source ports, the pending requests hold neither c nor
\* its linkedid, and no close_channel has raised.
C5_CloseChannelPostcondition ==
  [][/\ \A c \in CallIds :
          (c \in closed' /\ c \notin closed)
            => /\ c \notin Range(reg')
               /\ \A d \in Dirs : Port(c, d) \notin Range(streams')
               /\ c \notin pending'
               /\ channels'[c].linkedid \notin pending'
     /\ ~cc_raised']_vars

\* This step delivers a channelHangup, or a ChannelLeftBridge, for channel x.
HangupOf(x) == pbx[x] \in {"queued", "started"} /\ pbx'[x] = "gone"
LeftOf(x) == x \in bridged /\ x \notin bridged'

\* Call c is registered and x is its original channel or one of the snoop /
\* external-media channels recorded in it.
Owns(c, x) ==
  /\ c \in Range(reg) /\ x.call = c
  /\ \/ x.kind = "normal"
     \/ x.kind = "snoop" /\ channels[c].snoop[x.dir]
     \/ x.kind = "ext" /\ channels[c].ext[x.dir]

CallUnchanged(o) ==
  /\ channels'[o] = channels[o]
  /\ o \in Range(reg') <=> o \in Range(reg)
  /\ \A d \in Dirs : /\ Port(o, d) \in Range(streams') <=> Port(o, d) \in Range(streams)
                      /\ remote'[Port(o, d)] = remote[Port(o, d)]

\* The step belongs to the teardown of c by the event loop: every other Call is
\* untouched, and when the handler is done c is gone with its streams.
TearsDown(c) ==
  /\ \A o \in CallIds \ {c} : CallUnchanged(o)
  /\ IF loop'.pc = "idle"
     THEN c \notin Range(reg') /\ \A d \in Dirs : Port(c, d) \notin Range(streams')
     ELSE loop'.pc = "cc_idle" /\ loop'.call = c

C6_Step ==
  /\ \A x \in AllChans :
       (HangupOf(x) \/ LeftOf(x))
         => IF \E c \in CallIds : Owns(c, x)
            THEN \A c \in CallIds : Owns(c, x) => TearsDown(c)
            ELSE /\ \A o \in CallIds : CallUnchanged(o)
                 /\ pending' = pending /\ loop' = loop
  /\ (loop.pc = "cc_idle" /\ loop' # loop) => TearsDown(loop.call)

\* C6: a channelHangup for a Call's original, snoop or external-media channel,
\* and a ChannelLeftBridge for one of its snoop / external-media channels, tears
\* down exactly that Call (out of the registry, its RTP streams ended) and
\* leaves every other Call unchanged; the event of a channel no Call owns
\* changes nothing.
C6_EventTearsDownOwner == [][C6_Step]_vars

\* One call has been torn down by an event while the other, audio-ready, is
\* still registered with its streams.
C6_Witness ==
  \E c \in CallIds, o \in CallIds :
    /\ c # o /\ loop.pc = "idle"
    /\ budget.hangups < MaxHangups \/ budget.left < MaxLeft
    /\ c \in closed /\ c \notin Range(reg)
    /\ o \in Range(reg) /\ channels[o].stream["in"] /\ channels[o].stream["out"]
    /\ {Port(o, "in"), Port(o, "out")} \subseteq Range(streams)

\* An ARI request of the StasisStart handling of Call c fails in this step
\* (snoop, externalMedia, bridge create, addChannel or continue).
SetupFailed(c) ==
  /\ c \in failed_setup' /\ c \notin failed_setup
  /\ loop.pc \in {"snoop", "extmedia", "bridge", "add_snoop", "add_ext", "continue"}

InCloseChannel(t, c) == t.pc \in {"cc_idle", "cc_cont"} /\ t.call = c

C7_Step ==
  \A c \in CallIds :
    SetupFailed(c)
      => /\ loop'.pc \notin {"reconnect_sleep", "reconnect_connect", "ended"}
         /\ c \notin Range(reg') \/ InCloseChannel(loop', c)
         /\ \A o \in CallIds \ {c} : CallUnchanged(o)

\* C7: when an ARI request issued while handling a StasisStart of a Call
\* fails, that Call is torn down, every other Call is unchanged, and the event
\* loop goes on on the same WebSocket without starting a reconnect.
C7_FailureTearsDownOnlyThatCall == [][C7_Step]_vars

\* C8: every normal channel that entered Stasis is eventually returned to the
\* dialplan by a successful continue request, also when a setup request fails;
\* and the continue of the setup path is issued only after the StasisStart of
\* both external-media channels has been handled (both bridges attempted).
C8_EventuallyContinued ==
  /\ \A c \in CallIds : (pbx[Normal(c)] = "started") ~> (c \in continued)
  /\ [](loop.pc = "continue"
          => \A d \in Dirs : pbx[Aux("ext", d, loop.call)] = "started")

Reconnecting == loop.pc \in {"reconnect_sleep", "reconnect_connect"}

\* The delay the n-th attempt of a reconnect round waits: min(2^(n-1), 30)
BackoffDelay(n) == Min(2 ^ (n - 1), 30)

C9_Step ==
  \* the attempt in progress is the (fails + 1)-th of its round
  /\ Reconnecting' => delay' = BackoffDelay(fails' + 1)
  \* a round starts with its first attempt
  /\ (~Reconnecting /\ Reconnecting') => fails' = 0
  \* a failed attempt is followed by the next one while not shutting down
  /\ (loop.pc = "reconnect_connect" /\ loop' # loop /\ ~ws_open' /\ ~is_shutting_down)
       => loop'.pc = "reconnect_sleep" /\ fails' = fails + 1

\* C9: after an unexpected WebSocket close the n-th reconnect attempt waits
\* min(2^(n-1), 30) seconds (1, 2, 4, 8, 16, 30, 30, ...), a failed attempt is
\* followed by another while is_shutting_down is false, and the round after a
\* successful reconnect starts again at 1 second.
C9_Backoff == [][C9_Step]_vars

\* The seventh attempt of a round waits 30 seconds.
C9_Witness ==
  loop.pc = "reconnect_sleep" /\ ~is_shutting_down /\ fails = 6 /\ delay = 30

\* C10: once disconnect() has set is_shutting_down, no ARI WebSocket connection
\* is opened by a connection attempt that starts afterwards, such as the one of
\* a reconnect loop that was sleeping in its backoff delay when disconnect()
\* was called.
C10_NoConnectWhileShuttingDown ==
  [][(loop.pc = "reconnect_connect" /\ loop.stage = 1) => ~(~ws_open /\ ws_open')]_vars

\* C11: shutdown runs the ARI disconnect, then the RTP stop, then the bus
\* disconnect, and when it completes the Call registry and the RTP stream map
\* are empty, also when a StasisStart is handled while the sweep is in progress.
C11_ShutdownLeavesNothing ==
  /\ main.pc \in {"mqtt_disconnect", "done"} => is_shutting_down /\ session_closed
  /\ main.pc = "done" => reg = <<>> /\ streams = <<>>

\* The `final` messages handed to the bus client so far
Finals == SelectSeq(published, LAMBDA m : m.topic = "final")

\* C12: close() on a connector is idempotent: however many times and from
\* whichever tasks it is invoked, provider finalize() is called at most once and
\* at most one consolidated `final` message is published.
C12_CloseRunsOnce == dg.finalized <= 1 /\ Len(Finals) <= 1

\* The final transcript events received so far, in arrival order (every
\* non-empty event is handed to the bus client on arrival)
ReceivedFinals ==
  SelectSeq(published, LAMBDA m : m.topic = "transcription" /\ m.is_final)

NewRun(fs, i) == i = 1 \/ fs[i].speaker_name # fs[i - 1].speaker_name

\* Runs of one speaker, each headed "<speaker>: ", the pieces separated by
\* newlines, one leading newline
RECURSIVE ClaimedPieces(_, _)
ClaimedPieces(fs, i) ==
  IF i > Len(fs) THEN <<>>
  ELSE (IF NewRun(fs, i) THEN <<fs[i].speaker_name, ": ">> ELSE <<>>)
         \o <<fs[i].transcription, "\n">> \o ClaimedPieces(fs, i + 1)
ClaimedText(fs) == IF fs = <<>> THEN <<>> ELSE <<"\n">> \o ClaimedPieces(fs, 1)

\* This step hands a `final` message to the bus client.
PublishesFinal ==
  /\ Len(published') = Len(published) + 1
  /\ published'[Len(published')].topic = "final"

\* C13: the raw_transcription published at close is built from exactly the
\* non-empty is_final events received, in arrival order, grouped into runs of
\* one speaker, each run prefixed with "<speaker>: " and the pieces separated by
\* newlines ("\nAlice: hi\nBob: hello\n" for Alice 'hi' then Bob 'hello');
\* interim events never contribute.
C13_FinalTextAsStated ==
  [][PublishesFinal
       => published'[Len(published')].raw_transcription = ClaimedText(ReceivedFinals)]_vars

\* This step is on_message for the transcript event ev.
Handles(ev) ==
  /\ budget'.events < budget.events
  /\ OnMessage(ev)

C14_Step ==
  /\ \A ev \in Events :
       Handles(ev)
         => IF ev.text = ""
            THEN published' = published /\ handler' = handler /\ dg' = dg
            ELSE /\ Len(published') = Len(published) + 1
                 /\ SubSeq(published', 1, Len(published)) = published
                 /\ LET m == published'[Len(published')]
                        who == IF ev.index = 0 THEN SpeakerIn ELSE SpeakerOut
                        other == IF ev.index = 0 THEN SpeakerOut ELSE SpeakerIn
                    IN /\ m.topic = "transcription" /\ m.transcription = ev.text
                       /\ m.speaker_name = who.name /\ m.speaker_number = who.number
                       /\ m.speaker_counterpart_name = other.name
                       /\ m.speaker_counterpart_number = other.number
  \* an event with an empty transcript is never recorded
  /\ \A i \in 1..Len(dg'.complete_call) : dg'.complete_call[i].transcription # ""
  \* the handling of an event publishes nothing more
  /\ (handler.pc = "publish" /\ handler'.pc = "idle") => published' = published

\* C14: an inbound transcript event whose first alternative is empty publishes
\* nothing and records nothing; any other event publishes exactly one
\* `transcription` message, whose speaker is the 'in' party when
\* channel_index[0] is 0 and the 'out' party for any other index, the
\* counterpart fields naming the other party.
C14_OneMessagePerEvent == [][C14_Step]_vars

\* An event with channel index 2 was published as spoken by the 'out' party.
C14_Witness ==
  /\ handler.pc = "publish" /\ handler.ev.index = 2
  /\ published[Len(published)].speaker_name = "Bob"
  /\ published[Len(published)].speaker_counterpart_name = "Alice"

\* C15: when call_elapsed_at_start was recorded for the Call, every
\* `transcription` message carries call_elapsed_seconds = call_elapsed_at_start
\* + timestamp; when it was not, the key is absent.
C15_ElapsedSeconds ==
  \A i \in 1..Len(published) :
    published[i].topic = "transcription"
      => published[i].call_elapsed_seconds
           = IF dg.kw = NoElapsed THEN Absent ELSE dg.kw + published[i].timestamp

\* The last n bytes of a
LastBytes(a, n) == SubSeq(a, Len(a) - n + 1, Len(a))

\* The audio a datagram carries, as the server converts it
Audio(d) == IF swap16 THEN Swap16(d.payload) ELSE d.payload

\* This step is datagram_received(d, addr).
Receives(addr, d) ==
  /\ streams' = streams /\ active' = active /\ main' = main
  /\ budget'.reads = budget.reads
  /\ (budget'.dgrams < budget.dgrams) <=> (d.len > RtpHeaderSize)
  /\ DatagramReceived(addr, d)

\* This step feeds the audio of datagram d to the reader of port p.
FeedsReader(p, d) ==
  /\ buffer'[p] # buffer[p]
  /\ \E addr \in RingPorts : Receives(addr, d)

C16_Step ==
  \A p \in Ports :
    /\ Len(buffer'[p]) <= MaxBufferSize
    /\ \A d \in Dgrams :
         FeedsReader(p, d)
           => LET all == buffer[p] \o Audio(d)
              IN buffer'[p] = LastBytes(all, Min(Len(all), MaxBufferSize))

\* C16: after any sequence of feed_data, read and clear calls on a ring buffer,
\* with chunks of any length (longer than the cap included), the buffer holds at
\* most max_buffer_size bytes, and after an eviction the bytes kept are the most
\* recently fed ones, in the order they were fed.
C16_RingBufferBounded == [][C16_Step]_vars

Registered(ss) == Range(ss)

C17_Step ==
  \* no two registered streams are bound to the same address
  /\ \A p \in Registered(streams'), q \in Registered(streams') :
       (p # q /\ remote'[p] # NoAddr) => remote'[p] # remote'[q]
  \* a binding never changes while the stream stays registered
  /\ \A p \in Registered(streams) \cap Registered(streams') :
       remote[p] # NoAddr => remote'[p] = remote[p]
  \* a datagram from a bound address binds nothing and reaches only its stream
  /\ \A addr \in RingPorts, d \in Dgrams, p \in Registered(streams) :
       (remote[p] = addr /\ Receives(addr, d))
         => /\ remote' = remote
            /\ \A q \in Ports \ {p} : buffer'[q] = buffer[q]

\* C17: through create_stream, end_stream, stop and datagram_received no two
\* registered streams are ever bound to the same remote_addr, the remote_addr of
\* a registered stream never changes once it is set, and a datagram from a bound
\* address is delivered only to the stream bound to it and binds no other.
C17_BindingUniqueAndSticky == [][C17_Step]_vars

\* Two registered streams bound to different peers, the later one to the first
\* peer, and audio delivered to it.
C17_Witness ==
  /\ streams = <<Port("c1", "out"), Port("c1", "in")>>
  /\ remote[Port("c1", "out")] = Port("c1", "out")
  /\ remote[Port("c1", "in")] = Port("c1", "in")
  /\ buffer[Port("c1", "in")] # <<>>
  /\ buffer[Port("c1", "out")] = <<>>

\* new is old, less some of its oldest bytes, followed by data
Appended(old, data, new) ==
  \E k \in 0..Len(old) : new = SubSeq(old, k + 1, Len(old)) \o data

C18_Step ==
  \A addr \in RingPorts, d \in Dgrams :
    Receives(addr, d)
      => \A p \in Ports :
           IF /\ p \in Registered(streams) /\ remote'[p] = addr
              /\ active[p] /\ d.len > RtpHeaderSize
           THEN Appended(buffer[p], Audio(d), buffer'[p])
           ELSE buffer'[p] = buffer[p]

Required(topic) ==
  LET type == topic[Len(topic)]
  IN IF type = "events" THEN {"type"}
     ELSE IF type = "newStream" THEN {"roomName", "port", "channelId"}
     ELSE IF type = "channelEnd" THEN {"channelId"}
     ELSE {}

\* This step is a call publish(topic, p).
Publishes(topic, p) == budget'.publishes < budget.publishes /\ PublishCall(topic, p)

\* C19: publish(topic, payload) returns false, sends nothing to the broker and
\* leaves the connection state of the client unchanged whenever the client is
\* not connected or the payload lacks a field the schema of the topic requires.
C19_Step ==
  \A t \in PubTopics, p \in Payloads :
    Publishes(t, p) /\ (~mqtt.connected \/ ~(Required(t) \subseteq p.keys))
      => /\ \E k \in PubIds :
              pubs[k].pc = "free" /\ pubs'[k].pc = "free" /\ pubs'[k].ret = "false"
         /\ \A k \in PubIds : pubs'[k].pc = "sending" => pubs[k].pc = "sending"
         /\ broker' = broker
         /\ mqtt' = mqtt /\ conn' = conn
C19_RejectedPublish == [][C19_Step]_vars

\* A publish was rejected by the schema check while the client was connected
\* with a live session.
C19_Witness ==
  /\ \E k \in PubIds : pubs[k].ret = "false" /\ pubs[k].line = 182
  /\ mqtt.connected /\ Alive(B0, mqtt.client)
  /\ broker.sent = <<>>

\* This step is the return of publish call k after client.publish raised.
TransportFails(k) ==
  pubs[k].pc = "sending" /\ ~Alive(B0, pubs[k].c) /\ pubs'[k].pc = "free"

\* A reconnect task created by publish is waiting to run.
Scheduled == \E r \in RetryIds : conn[r].owner = "publish" /\ conn[r].pc = "ready"

\* The client is connected over a live session that holds every registered topic.
Restored ==
  /\ mqtt.connected
  /\ Alive(B0, mqtt.client)
  /\ mqtt.subscriptions \subseteq broker.subscribed[mqtt.client]

C20_Step ==
  \A k \in PubIds :
    TransportFails(k)
      => /\ pubs'[k].ret = "false"
         /\ ~mqtt'.connected
         /\ \E r \in RetryIds :
              conn[r].pc = "free" /\ conn'[r] = Activation("publish", "ready")

\* C20: when the transport fails during publish, publish returns false, the
\* client is marked disconnected and a reconnect is scheduled; with the broker
\* reachable again and the client not shut down, the client is eventually
\* connected again with every registered topic subscribed.
C20_ReconnectRestores == [][C20_Step]_vars /\ (Scheduled ~> Restored)

\* disconnect() has returned.
Disconnected == mqtt.disc.pc = "returned"

\* This step opens a session on the broker.
OpensSession ==
  \E r \in RetryIds : conn[r].pc = "aenter" /\ broker.up /\ conn'[r] # conn[r]

\* C21: after disconnect() has returned the client stays disconnected:
\* connected remains false and no broker session is opened any more, also by a
\* reconnect loop of an earlier failed publish that is still running.
C21_StaysDisconnected ==
  [](Disconnected => ~mqtt.connected) /\ [][Disconnected => ~OpensSession]_vars

\* ------------------------------------------------------------ batch API
\* Request r sends its response in this step.
Returns(r) == reqs[r].pc # "returned" /\ reqs'[r].pc = "returned"

\* C22: when a request that reserved a row returns, whatever happened to it,
\* the row is in state done or failed, never progress or summarizing.
C22_ReturnsInTerminalState ==
  [][\A r \in ReqIds :
       (Returns(r) /\ reqs[r].tid # NoTranscript)
         => rows'[reqs[r].u].state \in {"done", "failed"}]_vars

\* Position of a state along progress -> summarizing -> done / failed
Rank(st) == CASE st = "progress" -> 0 [] st = "summarizing" -> 1 [] OTHER -> 2

\* C23: whatever the interleaving of requests, a row's state moves backwards
\* along progress -> summarizing -> done / failed only when
\* upsert_transcript_progress re-enters progress.
C23_NeverBackwards ==
  [][\A u \in UniqueIds :
       (rows[u].id # NoTranscript /\ Rank(rows'[u].state) < Rank(rows[u].state))
         => /\ rows'[u].state = "progress"
            /\ \E r \in ReqIds : reqs[r].pc = "reserve" /\ reqs'[r] # reqs[r]]_vars

\* Request r puts its row into state st in this step.
Puts(r, st) ==
  /\ reqs'[r] # reqs[r]
  /\ reqs[r].tid # NoTranscript
  /\ rows[reqs[r].u].state # st
  /\ rows'[reqs[r].u].state = st

\* C24: a request puts its row into summarizing only when enrichment is enabled
\* (an LLM key is set) and the request asked for a summary; without either the
\* row goes from progress to done directly.
C24_SummarizingOnlyWithSummary ==
  [][\A r \in ReqIds :
       Puts(r, "summarizing") => (env.openai_api_key /\ reqs[r].summary)]_vars

\* C25: a request with persist=false writes nothing to the database on any of
\* its paths, and neither does a request that validation rejects (unsupported
\* MIME type, or persist=true with a missing or malformed uniqueid).
C25_NoWriteWithoutPersist ==
  [][\A r \in ReqIds :
       (/\ reqs'[r] # reqs[r]
        /\ \/ ~reqs'[r].persist
           \/ reqs[r].pc = "new" /\ reqs'[r].status = 400)
         => UNCHANGED <<rows, chunks>>]_vars

\* With the database and the LLM key configured, a request without persist was
\* answered 200 and a request with persist was rejected.
C25_Witness ==
  /\ env.pg /\ env.openai_api_key
  /\ \E r \in ReqIds : reqs[r].pc = "returned" /\ ~reqs[r].persist /\ reqs[r].status = 200
  /\ \E r \in ReqIds : reqs[r].pc = "returned" /\ reqs[r].persist /\ reqs[r].status = 400

\* ------------------------------------------------------------ database layer
\* C26: upsert_transcript_progress(u) leaves exactly one row for u, with the id
\* it had if it existed, in state progress and with an empty raw_transcription,
\* whatever the row held before.
C26_UpsertProgressIdempotent ==
  [][\A u \in UniqueIds :
       UpsertProgressCall(u)
         => /\ rows'[u].state = "progress"
            /\ rows'[u].raw = <<>>
            /\ rows[u].id # NoTranscript => rows'[u].id = rows[u].id
            /\ \A v \in UniqueIds \ {u} : rows'[v] = rows[v]]_vars

\* C27: after replace_transcript_embeddings(id, raw) has returned n, the chunks
\* stored for id are the n non-empty chunks of raw, indexed from 0, and none of
\* the chunks stored before; also when raw yields no chunk.
C27_EmbeddingsReplaced ==
  ret.id # NoTranscript
    => /\ chunks[ret.id] = SplitTextForEmbedding(ret.raw)
       /\ Len(chunks[ret.id]) = ret.n

\* ------------------------------------------------------------ API token
\* The token configured in API_TOKEN
Configured == Strip(OrEmpty(env.api_token))

\* Header h carries `Bearer <t>` for some non-empty t: the scheme, in any
\* case, a blank, and a token
CarriesBearer(h) ==
  LET v == Strip(OrEmpty(h))
  IN Len(v) > 7 /\ Lower(SubSeq(v, 1, 6)) = <<"b", "e", "a", "r", "e", "r">> /\ v[7] = " "

\* Header h is `Bearer <t>`
AsBearer(h, t) ==
  CarriesBearer(h) /\ Strip(SubSeq(Strip(OrEmpty(h)), 8, Len(Strip(OrEmpty(h))))) = t

\* Header h is `<t>`
AsToken(h, t) == h.present /\ Strip(h.value) = t

\* C28, as stated: with a token configured, a request is accepted iff it
\* presents the token as
\* Authorization: Bearer <t> or as X-Api-Token: <t>, and gets 401 otherwise;
\* with none configured every request is accepted.
C28_AcceptedIffEitherHeader ==
  gate.out # "none"
    => /\ gate.out \in {"pass", "401"}
       /\ gate.out = "pass"
            <=> \/ Configured = <<>>
                \/ AsBearer(gate.authorization, Configured)
                \/ AsToken(gate.x_api_token, Configured)

\* C28, amended: with a token configured, a request is accepted iff its Bearer token is
\* the configured one or, when the Authorization header carries no Bearer
\* token, its X-Api-Token is the configured one, and gets 401 otherwise; with
\* none configured every request is accepted.
C28_BearerBeforeTokenHeader ==
  gate.out # "none"
    => /\ gate.out \in {"pass", "401"}
       /\ gate.out = "pass"
            <=> \/ Configured = <<>>
                \/ AsBearer(gate.authorization, Configured)
                \/ ~CarriesBearer(gate.authorization)
                     /\ AsToken(gate.x_api_token, Configured)

\* A request with another Bearer token and the configured X-Api-Token was
\* refused.
C28_Witness ==
  /\ gate.out = "401"
  /\ Configured # <<>>
  /\ CarriesBearer(gate.authorization)
  /\ AsToken(gate.x_api_token, Configured)

\* ------------------------------------------------------------ teardown
\* This step is the `del self.channels[c]` of a close_channel(c).
Unregisters(c) == c \in Range(reg) /\ c \notin Range(reg')

\* C29: close_channel closes the connector, deletes both bridges, both
\* external-media channels and both snoop channels, ends both RTP streams,
\* removes the Call from the registry and discards the pending request: when
\* the Call leaves the registry, each resource it held has been released and
\* its key deleted from the Call, the two snoop channels included.
C29_EveryResourceReleased ==
  [][\A c \in CallIds :
       Unregisters(c)
         => /\ ~channels'[c].connector
            /\ \A d \in Dirs :
                 /\ ~channels'[c].bridge[d]
                 /\ ~channels'[c].ext[d]
                 /\ ~channels'[c].snoop[d]
                 /\ ~channels'[c].port[d]
                 /\ Port(c, d) \notin Range(streams')
            /\ c \notin pending']_vars

\* This step delivers a StasisEnd for channel x.
EndOf(x) == budget'.ends < budget.ends /\ StasisEnd(x)

\* C30: a StasisEnd for the original channel of a live Call moves the Call to
\* teardown, as a hangup or a ChannelLeftBridge does: the Call leaves the
\* registry and its RTP streams are ended.
C30_StasisEndTearsDown ==
  [][\A c \in CallIds :
       (EndOf(Normal(c)) /\ c \in Range(reg) /\ c \in continued) => TearsDown(c)]_vars

\* ------------------------------------------------------------ audio-ready
\* The Call dict of c holds the keys of both bridges and both source ports.
BothTaps(ch, c) == \A d \in Dirs : ch[c].bridge[d] /\ ch[c].port[d]

C31_Step ==
  /\ \A c \in CallIds :
       /\ (\E d \in Dirs : ~channels[c].stream[d] /\ channels'[c].stream[d])
            => loop.pc = "sleep" /\ loop.call = c
       /\ (\E d \in Dirs : Port(c, d) \notin Range(streams) /\ Port(c, d) \in Range(streams'))
            => /\ loop.pc = "add_ext" /\ loop.call = c /\ loop'.pc = "sleep"
               /\ \A d \in Dirs : Port(c, d) \in Range(streams')
  /\ (loop.pc # "sleep" /\ loop'.pc = "sleep")
       => loop.pc = "add_ext" /\ loop'.call = loop.call /\ BothTaps(channels, loop.call)

\* C31: a Call holds rtp_stream_in iff it holds rtp_stream_out; it gets them
\* only from the handler that has found both bridges created and both source
\* ports recorded; the two RTP streams are allocated by the handler that
\* creates the second bridge, in the step that finds both bridges, and never
\* before.
C31_StreamsOnlyWithBothBridges ==
  /\ [](\A c \in CallIds : channels[c].stream["in"] = channels[c].stream["out"])
  /\ [][C31_Step]_vars

\* A Call holds both streams, registered in the RTP server.
C31_Witness ==
  \E c \in Range(reg) :
    \A d \in Dirs : channels[c].stream[d] /\ Port(c, d) \in Range(streams)

\* ------------------------------------------------------------ audio pump
\* C32: in the collection loop of the audio pump, a poll of the ring buffers
\* that returns no data is followed by an await before the next poll: the pump
\* never polls twice in a row without audio and without suspending.
C32_YieldAfterEmptyPoll == dg.idle <= 1

\* ------------------------------------------------------------ schema bootstrap
\* C33: whatever the interleaving of the threads in _ensure_schema, at most
\* one of them runs the bootstrap DDL at a time and it is the holder of the
\* lock; the bootstrap succeeds at most once; _schema_initialized is true
\* exactly when a bootstrap has succeeded, with or without the HNSW index, so
\* after a failed bootstrap the next caller runs it again; a caller returns
\* only with the schema in place.
C33_BootstrapOnceUnderLock ==
  /\ \A t, u \in ThreadIds : (schema.th[t] = "ddl" /\ schema.th[u] = "ddl") => t = u
  /\ \A t \in ThreadIds : schema.th[t] = "ddl" <=> schema.lock = t
  /\ schema.boots <= 1
  /\ schema.initialized <=> schema.boots = 1
  /\ schema.initialized
       <=> \E t \in ThreadIds : schema.th[t] \in {"ok", "ok_without_hnsw"}
  /\ \A t \in ThreadIds :
       schema.th[t] \in {"returned", "ok", "ok_without_hnsw"} => schema.initialized

\* A bootstrap failed, the next one succeeded without the HNSW index, and a
\* third caller returned without running it.
C33_Witness ==
  \E t, u, v \in ThreadIds :
    /\ schema.th[t] = "raised"
    /\ schema.th[u] = "ok_without_hnsw"
    /\ schema.th[v] = "returned"

\* ------------------------------------------------------------ audio of two calls
\* The Call whose external-media channel sends from source port p
CallOfPort(p) == CHOOSE c \in CallIds : \E d \in Dirs : Port(c, d) = p

\* This step is datagram_received and appends audio to the stream of port p.
AudioAppended(p) ==
  /\ budget'.dgrams < budget.dgrams
  /\ p \in Range(streams)
  /\ buffer'[p] # buffer[p]

\* C34: with calls set up side by side, the audio of a datagram is appended
\* only to a stream allocated to the Call whose tap sent it, whatever the order
\* in which the calls allocate their streams and their first datagrams arrive.
C34_AudioStaysInItsCall ==
  [][\A p \in Ports : AudioAppended(p) => CallOfPort(remote'[p]) = CallOfPort(p)]_vars


\* ------------------------------------------------------------ stop during the handshake
\* A stop_transcription call is suspended in connector.close() for c.
StopInProgress(c) == \E a \in ApiIds : api[a].pc = "sp_close" /\ Head(api[a].todo) = c

\* In this step connector.start() returns or raises in task t.
StartReturns(t) == tasks[t].pc = "starting" /\ tasks'[t] # tasks[t]

\* stop_transcription took the connector of c away and has finished.
StoppedMeanwhile(c) ==
  /\ c \in Range(reg)
  /\ ~channels[c].requested /\ ~channels[c].connector
  /\ ~StopInProgress(c)

\* C35: when stop_transcription ran for a Call while a _start_connector task
\* of that Call was suspended in the provider handshake, then once both have
\* finished connector_started is false and no started connector (one with its
\* two audio tasks) is left for the Call.
C35_StopWinsOverHandshake ==
  [][\A t \in TaskIds :
       (StartReturns(t) /\ StoppedMeanwhile(tasks[t].call))
         => ~channels'[tasks[t].call].started]_vars


\* ------------------------------------------------------------ one start per connector
\* In this step task t calls start() on the connector of the Call dict of c.
InvokesStart(t, c) ==
  /\ tasks[t].pc # "starting"
  /\ tasks'[t].pc = "starting" /\ tasks'[t].call = c

\* Another task is suspended in start() of the connector the dict of c holds.
StartInProgress(t, c) ==
  /\ channels[c].connector
  /\ \E u \in TaskIds \ {t} : tasks[u].pc = "starting" /\ tasks[u].call = c

\* C36: start() is invoked at most once on the connector of a Call between
\* stops: connector-start requests issued before the first provider handshake
\* completes lead to one start() and one pair of audio tasks.
C36_SingleStart ==
  [][\A t \in TaskIds, c \in CallIds : InvokesStart(t, c) => ~StartInProgress(t, c)]_vars


\* ------------------------------------------------------------ overlapping close_channel
\* Hangups while main() shuts down: the handler and the sweep close the same Call
InitSweep == InitWith([NoEvents EXCEPT !.calls = 1, !.hangups = MaxHangups,
                                       !.left = MaxLeft])
NextSweep == Setup \/ Teardown \/ Shutdown
SpecSweep == InitSweep /\ [][NextSweep]_vars

\* C37: close_channel invocations for the same Call that overlap all complete
\* without raising, and once one has returned the Call is absent from the
\* registry and the RTP server holds no stream of its source ports.
C37_OverlappingCloses ==
  /\ ~cc_raised
  /\ \A c \in closed :
       /\ c \notin Range(reg)
       /\ \A d \in Dirs : Port(c, d) \notin Range(streams)


\* ------------------------------------------------------------ one connect-retry loop
\* The _connect_with_retry activations that have started to run
ActiveRetries == {r \in RetryIds : conn[r].pc \notin {"free", "ready"}}

\* C38: at most one _connect_with_retry loop is active at any time, whatever
\* publish failures and reader errors occur during a reconnect, and at most
\* one broker session is open at once.
C38_SingleRetryLoop ==
  /\ Cardinality(ActiveRetries) <= 1
  /\ Cardinality(broker.sessions) + broker.lost <= 1


\* ------------------------------------------------------------ StasisStart without an owner
\* This step handles the StasisStart of the auxiliary channel a, which no
\* Call in the registry owns.
OrphanStart(a) ==
  /\ loop.pc = "idle"
  /\ pbx[a] = "queued" /\ pbx'[a] = "started"
  /\ AuxOwner(G0, a) = NoId

\* C39: the StasisStart of a snoop or external-media channel that no Call
\* owns is ignored: the registry and the Calls are unchanged, no exception
\* leaves the handler, and the event loop goes on to the next event without
\* reconnecting.
C39_OrphanStartIgnored ==
  [][\A a \in AuxChans :
       OrphanStart(a) => /\ loop' = LoopIdle
                         /\ UNCHANGED <<reg, channels, streams>>]_vars


\* ------------------------------------------------------------ streams and their Calls

InitLife == InitWith([NoEvents EXCEPT !.calls = 1, !.hangups = MaxHangups,
                                      !.left = MaxLeft])
NextLife == Setup \/ Teardown \/ Datagrams
SpecLife == InitLife /\ [][NextLife]_vars

====
